---- MODULE Spec2Model ----
(***************************************************************************)
(* Model of the Border Router gateway of kryptonn76/coapserver:             *)
(*   lib/border_router_manager.py   - the BR registry and its sweeper      *)
(*   lib/native_websocket_handler.py - the WebSocket gateway (sessions,     *)
(*                                    RX loop, TX worker, command senders)  *)
(*   lib/br_auth.py                  - the credential store                 *)
(*                                                                         *)
(* Python dicts are functions whose DOMAIN is the set of keys; lists are   *)
(* sequences.  datetime.now() is the integer clock `now`; one tick is one  *)
(* sweeper period (time.sleep(5)).                                         *)
(***************************************************************************)
EXTENDS Integers, Sequences, FiniteSets, TLC

\* ------------------------------------------------------------------------
\* Bounds of the model
\* ------------------------------------------------------------------------
\* last value of the clock
MaxTime == 4
\* registry API calls explored by SpecReg
MaxOps == 3
\* WebSocket connections opened
MaxSessions == 2
\* TX worker threads (and their queues) created
MaxWorkers == 3
\* request ids (uuid4) drawn
MaxMsgs == 2
\* inbound frames read by the RX loops
MaxRx == 2
\* diagnostic events handed to the topology aggregator
MaxReports == 2

\* ------------------------------------------------------------------------
\* Input domains
\* ------------------------------------------------------------------------
BrIds == {"BR1", "BR2"}
Sids == {"s1", "s2"}
NodeNames == {"n1", "n2"}
NodeLists == {<<>>, <<"n1">>, <<"n1", "n2">>}

\* Python's None
None == "<None>"
\* None (or a missing key) where the value is a number
NoneInt == 0 - 1

\* BorderRouterManager(heartbeat_timeout), in ticks
heartbeat_timeout == 2
\* time.sleep(5) of the sweeper: one tick
SweepPeriod == 1

VARIABLES
    \* BorderRouterManager
    border_routers,     \* {br_id: {info}}
    sid_to_br,          \* {socket_id: br_id}
    node_to_br,         \* {node_name: br_id}
    now,                \* datetime.now()
    next_sweep,         \* when the sweeper's sleep ends
    \* NativeWebSocketHandler
    active_connections, \* {br_id: ws_connection}
    message_queues,     \* {br_id: Queue()}, a queue object is its index in `queues`
    tx_threads,         \* {br_id: Thread}, a thread object is its index in `workers`
    ipv6_mapping,       \* {ipv6: {node_name, br_id, last_seen}}
    \* the objects the handler's tables point to
    sessions,           \* per connection: where handle_connection stands, and its br_id
    ws_out,             \* per connection: the frames written to the socket, in order
    workers,            \* per TX thread: where _tx_thread_worker stands
    queues,             \* per queue.Queue object: its items
    emitted,            \* _socketio.emit(...) calls, in order
    next_id,            \* uuid.uuid4() values drawn
    rx_count,           \* inbound frames read
    \* history
    enq_log,            \* the messages put on a queue: [request_id, br_id, q, ws]
    \* NetworkTopologyAggregator
    agg_nodes,          \* nodes: {(partition_id, ext_addr): {node}}
    router_links,       \* {(rloc16_a, rloc16_b): {metrics}}
    child_links,        \* {(parent_rloc16, child_rloc16): {metrics}}
    \* history of the aggregator
    reported,           \* the node reports made: [partition, ext_addr, ..., br_id, at]
    link_latest,        \* per (partition, rloc16 pair): the newest router-link sample
    \* BRAuthManager
    config_file,        \* config/border_routers.json: what a reader finds in it
    config_cache,       \* the dict object the cache refers to, 0 for None
    cache_timestamp,
    configs,            \* the dict objects json.load made, by reference
    adders,             \* per thread in add_br_to_config: where it stands
    \* threads inside the aggregator
    upsert_flows,       \* per RX flow in upsert_node: where it stands
    last_call,          \* the most recent call: [op, br, arg, ret]
    ops                 \* registry calls made so far (SpecReg)

regvars == <<border_routers, sid_to_br, node_to_br>>
tablevars == <<active_connections, message_queues, tx_threads>>
aggvars == <<agg_nodes, router_links, child_links, reported, link_latest>>
hvars == <<active_connections, message_queues, tx_threads, ipv6_mapping, sessions,
           ws_out, workers, queues, emitted, next_id, rx_count, enq_log>>
gwvars == <<hvars, aggvars>>
authvars == <<config_file, config_cache, cache_timestamp, configs, adders>>
concvars == <<authvars, upsert_flows>>
vars == <<border_routers, sid_to_br, node_to_br, now, next_sweep,
          active_connections, message_queues, tx_threads, ipv6_mapping, sessions,
          ws_out, workers, queues, emitted, next_id, rx_count, enq_log,
          agg_nodes, router_links, child_links, reported, link_latest,
          config_file, config_cache, cache_timestamp, configs, adders, upsert_flows,
          last_call, ops>>

\* ------------------------------------------------------------------------
\* dict and list helpers
\* ------------------------------------------------------------------------
EmptyDict == [x \in {} |-> None]
Put(f, k, v) == [x \in (DOMAIN f) \cup {k} |-> IF x = k THEN v ELSE f[x]]
Del(f, k) == [x \in (DOMAIN f) \ {k} |-> f[x]]
Get(f, k) == IF k \in DOMAIN f THEN f[k] ELSE None
Range(s) == {s[i] : i \in DOMAIN s}

Call(op, br, arg, ret) == [op |-> op, br |-> br, arg |-> arg, ret |-> ret]

\* ------------------------------------------------------------------------
\* BorderRouterManager (lib/border_router_manager.py)
\* ------------------------------------------------------------------------
NewRecord(sid, nodes) ==
    [sid |-> sid, nodes |-> nodes, status |-> "online",
     connected_at |-> now, last_heartbeat |-> now, heartbeat_count |-> 0,
     nodes_count |-> Len(nodes), commands_sent |-> 0, events_received |-> 0,
     disconnected_at |-> NoneInt]

register_br_keeps_old_sid(br_id, sid, nodes) ==
    /\ border_routers' = Put(border_routers, br_id, NewRecord(sid, nodes))
    /\ sid_to_br' = Put(sid_to_br, sid, br_id)
    /\ node_to_br' = [n \in (DOMAIN node_to_br) \cup Range(nodes) |->
                        IF n \in Range(nodes) THEN br_id ELSE node_to_br[n]]

register_br(br_id, sid, nodes) ==
    LET reconnect == br_id \in DOMAIN border_routers
        old_sid == border_routers[br_id].sid
        s2b == IF reconnect /\ old_sid \in DOMAIN sid_to_br
               THEN Del(sid_to_br, old_sid) ELSE sid_to_br
    IN  /\ border_routers' = Put(border_routers, br_id, NewRecord(sid, nodes))
        /\ sid_to_br' = Put(s2b, sid, br_id)
        /\ node_to_br' = [n \in (DOMAIN node_to_br) \cup Range(nodes) |->
                            IF n \in Range(nodes) THEN br_id ELSE node_to_br[n]]

\* unregister_br without the owner test of line 112
unregister_br_any_owner(br_id) ==
    IF br_id \notin DOMAIN border_routers
    THEN UNCHANGED regvars
    ELSE LET br_info == border_routers[br_id]
             sid == br_info.sid
         IN  /\ sid_to_br' = IF sid \in DOMAIN sid_to_br
                             THEN Del(sid_to_br, sid) ELSE sid_to_br
             /\ node_to_br' = [n \in DOMAIN node_to_br \ Range(br_info.nodes)
                                 |-> node_to_br[n]]
             /\ border_routers' = [border_routers EXCEPT
                                     ![br_id].status = "offline",
                                     ![br_id].disconnected_at = now]

unregister_br(br_id) ==
    IF br_id \notin DOMAIN border_routers
    THEN UNCHANGED regvars
    ELSE LET br_info == border_routers[br_id]
             sid == br_info.sid
         IN  /\ sid_to_br' = IF sid \in DOMAIN sid_to_br
                             THEN Del(sid_to_br, sid) ELSE sid_to_br
             /\ node_to_br' = [n \in {m \in DOMAIN node_to_br :
                                        ~(m \in Range(br_info.nodes)
                                          /\ node_to_br[m] = br_id)}
                                 |-> node_to_br[n]]
             /\ border_routers' = [border_routers EXCEPT
                                     ![br_id].status = "offline",
                                     ![br_id].disconnected_at = now]

update_heartbeat(br_id, nodes_count) ==
    IF br_id \notin DOMAIN border_routers
    THEN UNCHANGED regvars
    ELSE /\ border_routers' = [border_routers EXCEPT
                ![br_id].last_heartbeat = now,
                ![br_id].heartbeat_count = @ + 1,
                ![br_id].nodes_count = IF nodes_count # NoneInt THEN nodes_count ELSE @,
                ![br_id].status = "online"]
         /\ UNCHANGED <<sid_to_br, node_to_br>>

is_br_online(br_id) ==
    /\ br_id \in DOMAIN border_routers
    /\ border_routers[br_id].status = "online"
    /\ now - border_routers[br_id].last_heartbeat < heartbeat_timeout

get_br_for_node(node_name) ==
    LET br_id == Get(node_to_br, node_name)
    IN  IF br_id # None /\ is_br_online(br_id) THEN br_id ELSE None

get_br_sid(br_id) ==
    IF br_id \in DOMAIN border_routers /\ border_routers[br_id].status = "online"
    THEN border_routers[br_id].sid
    ELSE None

\* the br_ids of the returned list
get_active_border_routers ==
    {br_id \in DOMAIN border_routers :
        /\ border_routers[br_id].status = "online"
        /\ now - border_routers[br_id].last_heartbeat < heartbeat_timeout}

\* the 'status' entry of each returned dict
get_all_brs_status ==
    [br_id \in DOMAIN border_routers |->
        IF is_br_online(br_id) THEN "online" ELSE "offline"]

get_statistics ==
    LET total_brs == Cardinality(DOMAIN border_routers)
        online_brs == Cardinality({br_id \in DOMAIN border_routers : is_br_online(br_id)})
    IN  [total_border_routers |-> total_brs,
         online_border_routers |-> online_brs,
         offline_border_routers |-> total_brs - online_brs,
         total_nodes |-> Cardinality(DOMAIN node_to_br)]

increment_command_counter(br_id) ==
    /\ border_routers' = IF br_id \in DOMAIN border_routers
                         THEN [border_routers EXCEPT ![br_id].commands_sent = @ + 1]
                         ELSE border_routers
    /\ UNCHANGED <<sid_to_br, node_to_br>>

\* an increment_event_counter that counts nothing
increment_no_counter(br_id) == UNCHANGED regvars

increment_event_counter(br_id) ==
    /\ border_routers' = IF br_id \in DOMAIN border_routers
                         THEN [border_routers EXCEPT ![br_id].events_received = @ + 1]
                         ELSE border_routers
    /\ UNCHANGED <<sid_to_br, node_to_br>>

update_nodes_list(br_id, nodes) ==
    IF br_id \notin DOMAIN border_routers
    THEN UNCHANGED regvars
    ELSE LET old_nodes == border_routers[br_id].nodes
             kept == {m \in DOMAIN node_to_br :
                        ~(m \in Range(old_nodes) /\ node_to_br[m] = br_id)}
         IN  /\ node_to_br' = [n \in kept \cup Range(nodes) |->
                                 IF n \in Range(nodes) THEN br_id ELSE node_to_br[n]]
             /\ border_routers' = [border_routers EXCEPT
                                     ![br_id].nodes = nodes,
                                     ![br_id].nodes_count = Len(nodes)]
             /\ UNCHANGED sid_to_br

\* one pass of the sweeper's loop body
monitor_heartbeats_never(brs) == brs

monitor_heartbeats(brs) ==
    [br_id \in DOMAIN brs |->
        IF brs[br_id].status = "online"
           /\ now - brs[br_id].last_heartbeat > heartbeat_timeout
        THEN [brs[br_id] EXCEPT !.status = "offline", !.disconnected_at = now]
        ELSE brs[br_id]]

\* ------------------------------------------------------------------------
\* The clock and the sweeper thread
\* ------------------------------------------------------------------------
Tick ==
    /\ now < MaxTime
    /\ now < next_sweep
    /\ now' = now + 1
    /\ last_call' = Call("tick", None, None, None)
    /\ UNCHANGED <<regvars, next_sweep, concvars, ops, gwvars>>

Sweep ==
    /\ now = next_sweep
    /\ border_routers' = monitor_heartbeats(border_routers)
    /\ next_sweep' = now + SweepPeriod
    /\ last_call' = Call("sweep", None, None, None)
    /\ UNCHANGED <<sid_to_br, node_to_br, now, concvars, ops, gwvars>>

\* ------------------------------------------------------------------------
\* Configuration files and the credential store (lib/br_auth.py)
\* ------------------------------------------------------------------------
\* config/border_routers.json: border_routers.<br_id>
BrConfig == [BR1 |-> [auth_token |-> "T1", nodes |-> <<"n1">>],
             BR2 |-> [auth_token |-> "T2", nodes |-> <<"n2">>]]
\* config/adresses.json: nodes.<name>.address
AddrConfig == [n1 |-> "fd78::a1", n2 |-> "fd78::a2"]

\* what a connection URL may carry
ConnBrIds == {"BR1", "BR2", "BRX", ""}
Tokens == {"T1", "T2", ""}

verify_br_token(br_id, token) ==
    IF br_id = "" \/ token = "" THEN FALSE
    ELSE IF br_id \notin DOMAIN BrConfig THEN FALSE
    ELSE IF BrConfig[br_id].auth_token = "" THEN FALSE
    ELSE token = BrConfig[br_id].auth_token

\* get_br_config(br_id).get('nodes', []), or [] without a config
get_br_config_nodes(br_id) ==
    IF br_id \in DOMAIN BrConfig THEN BrConfig[br_id].nodes ELSE <<>>

\* NativeWebSocketHandler(br_auth_enabled=True)
br_auth_enabled == TRUE

authenticate_br_accepts_all(br_id, auth_token) == TRUE

authenticate_br(br_id, auth_token) ==
    IF ~br_auth_enabled THEN TRUE ELSE verify_br_token(br_id, auth_token)

\* ------------------------------------------------------------------------
\* Name resolution (lib/native_websocket_handler.py)
\* ------------------------------------------------------------------------
\* The topology aggregator holds no node in Spec, so only the config layer
\* of resolve_ipv6_to_node_name can answer.
resolve_ipv6_to_node_name(ipv6) ==
    IF \E n \in DOMAIN AddrConfig : AddrConfig[n] = ipv6
    THEN CHOOSE n \in DOMAIN AddrConfig : AddrConfig[n] = ipv6
    ELSE None

resolve_node_name_to_ipv6(node_name) == Get(AddrConfig, node_name)

\* f"unknown-{source_ipv6[-8:]}": the model's addresses have 8 characters
unknown_name(source_ipv6) == "unknown-" \o source_ipv6

update_ipv6_mapping(mapping, ipv6, node_name, br_id) ==
    Put(mapping, ipv6, [node_name |-> node_name, br_id |-> br_id, last_seen |-> now])

\* NativeWebSocketHandler.get_br_for_node: the dynamic mapping only
handler_get_br_for_node(node_name) ==
    IF \E ip \in DOMAIN ipv6_mapping : ipv6_mapping[ip].node_name = node_name
    THEN ipv6_mapping[CHOOSE ip \in DOMAIN ipv6_mapping :
                         ipv6_mapping[ip].node_name = node_name].br_id
    ELSE LET ipv6 == resolve_node_name_to_ipv6(node_name)
         IN  IF ipv6 # None /\ ipv6 \in DOMAIN ipv6_mapping
             THEN ipv6_mapping[ipv6].br_id
             ELSE None

\* ------------------------------------------------------------------------
\* Sockets, queues and the TX worker
\* ------------------------------------------------------------------------
Frame(type, request_id, target_ipv6, command_type, payload) ==
    [type |-> type, request_id |-> request_id, target_ipv6 |-> target_ipv6,
     command_type |-> command_type, payload |-> payload]

ErrorFrame(message) == Frame("error", 0, None, None, message)
ConnectedFrame(br_id) == Frame("connected", 0, None, None, br_id)
HeartbeatAck == Frame("heartbeat_ack", 0, None, None, None)
\* queue item None: the shutdown sentinel
Sentinel == Frame(None, 0, None, None, None)

\* the peer can still be written to: the handler has not left its RX loop
WsOpen(ws) == sessions[ws].pc \in {"hello", "rx"}

\* ws.send(frame): raises on a closed socket, and nothing is written
WsSend(out, ws, frame) ==
    IF WsOpen(ws) THEN [out EXCEPT ![ws] = Append(@, frame)] ELSE out

\* queue.Queue.get / put
QueueGetLast(items) ==
    [item |-> items[Len(items)], rest |-> SubSeq(items, 1, Len(items) - 1)]

QueueGet(items) == [item |-> Head(items), rest |-> Tail(items)]

QueuePut(qs, q, item) == [qs EXCEPT ![q] = Append(@, item)]

NewWorker(br_id, ws) ==
    [br_id |-> br_id, ws |-> ws, pc |-> "lookup", q |-> 0, msg |-> Sentinel]

Alive(t) == workers[t].pc # "dead"

\* self.message_queues[br_id] ... : the dict lookup of the loop head
TxLookup(t) ==
    LET w == workers[t]
    IN  /\ w.pc = "lookup"
        /\ workers' = IF w.br_id \in DOMAIN message_queues
                      THEN [workers EXCEPT ![t].pc = "get",
                                           ![t].q = message_queues[w.br_id]]
                      ELSE [workers EXCEPT ![t].pc = "dead"]
        /\ last_call' = Call("tx_lookup", w.br_id, t, None)
        /\ UNCHANGED <<regvars, now, next_sweep, concvars, ops, aggvars, tablevars, ipv6_mapping,
                       sessions, ws_out, queues, emitted, next_id, rx_count, enq_log>>

\* ... .get(): blocks until the queue object holds an item
TxGet(t) ==
    LET w == workers[t]
    IN  /\ w.pc = "get"
        /\ queues[w.q] # <<>>
        /\ LET g == QueueGet(queues[w.q])
           IN  /\ queues' = [queues EXCEPT ![w.q] = g.rest]
               /\ workers' = IF g.item = Sentinel
                             THEN [workers EXCEPT ![t].pc = "dead"]
                             ELSE [workers EXCEPT ![t].pc = "send", ![t].msg = g.item]
        /\ last_call' = Call("tx_get", w.br_id, t, None)
        /\ UNCHANGED <<regvars, now, next_sweep, concvars, ops, aggvars, tablevars, ipv6_mapping,
                       sessions, ws_out, emitted, next_id, rx_count, enq_log>>

\* ws.send(message); a failure is logged and the loop goes on
TxSend(t) ==
    LET w == workers[t]
    IN  /\ w.pc = "send"
        /\ ws_out' = WsSend(ws_out, w.ws, w.msg)
        /\ workers' = [workers EXCEPT ![t].pc = "lookup", ![t].msg = Sentinel]
        /\ last_call' = Call("tx_send", w.br_id, t, WsOpen(w.ws))
        /\ UNCHANGED <<regvars, now, next_sweep, concvars, ops, aggvars, tablevars, ipv6_mapping,
                       sessions, queues, emitted, next_id, rx_count, enq_log>>

\* ------------------------------------------------------------------------
\* handle_connection: accept phase, RX loop exit and teardown
\* ------------------------------------------------------------------------
Reject(br_id, message) ==
    /\ sessions' = Append(sessions, [pc |-> "rejected", br_id |-> br_id])
    /\ ws_out' = Append(ws_out, <<ErrorFrame(message)>>)
    /\ UNCHANGED <<regvars, tablevars, workers, queues>>

\* lines 535-601: parse, validate, authenticate, register, create the queue
\* and start the TX thread
handle_connection_accept(br_id, auth_token) ==
    LET ws == Len(sessions) + 1
        t == Len(workers) + 1
        nodes == get_br_config_nodes(br_id)
    IN  IF br_id = "" \/ auth_token = ""
        THEN Reject(br_id, "Missing br_id or auth_token")
        ELSE IF ~authenticate_br(br_id, auth_token)
        THEN Reject(br_id, "Authentication failed")
        ELSE /\ t <= MaxWorkers
             /\ register_br(br_id, br_id, nodes)
             /\ active_connections' = Put(active_connections, br_id, ws)
             /\ queues' = Append(queues, <<>>)
             /\ message_queues' = Put(message_queues, br_id, t)
             /\ workers' = Append(workers, NewWorker(br_id, ws))
             /\ tx_threads' = Put(tx_threads, br_id, t)
             /\ sessions' = Append(sessions, [pc |-> "hello", br_id |-> br_id])
             /\ ws_out' = Append(ws_out, <<>>)

Accept ==
    \E br_id \in ConnBrIds, auth_token \in Tokens :
        /\ Len(sessions) < MaxSessions
        /\ handle_connection_accept(br_id, auth_token)
        /\ last_call' = Call("handle_connection", br_id, auth_token, Len(sessions) + 1)
        /\ UNCHANGED <<now, next_sweep, concvars, ops, aggvars, ipv6_mapping, emitted, next_id,
                       rx_count, enq_log>>

\* a BR connects with the credentials config/border_routers.json gives it
AcceptConfigured ==
    \E br_id \in DOMAIN BrConfig :
        /\ Len(sessions) < MaxSessions
        /\ handle_connection_accept(br_id, BrConfig[br_id].auth_token)
        /\ last_call' = Call("handle_connection", br_id, BrConfig[br_id].auth_token,
                             Len(sessions) + 1)
        /\ UNCHANGED <<now, next_sweep, concvars, ops, aggvars, ipv6_mapping, emitted, next_id,
                       rx_count, enq_log>>

\* lines 603-614: the connection confirmation, then the RX loop
SendConnected ==
    \E ws \in DOMAIN sessions :
        /\ sessions[ws].pc = "hello"
        /\ ws_out' = WsSend(ws_out, ws, ConnectedFrame(sessions[ws].br_id))
        /\ sessions' = [sessions EXCEPT ![ws].pc = "rx"]
        /\ last_call' = Call("connected", sessions[ws].br_id, ws, None)
        /\ UNCHANGED <<regvars, now, next_sweep, concvars, ops, aggvars, tablevars, ipv6_mapping,
                       workers, queues, emitted, next_id, rx_count, enq_log>>

\* lines 633-637: the RX loop has ended (ws.receive() returned None or
\* raised); the sentinel goes on the queue message_queues holds for br_id
teardown_signal(ws) ==
    LET br_id == sessions[ws].br_id
    IN  /\ queues' = IF br_id \in DOMAIN message_queues
                     THEN QueuePut(queues, message_queues[br_id], Sentinel)
                     ELSE queues
        /\ sessions' = [sessions EXCEPT ![ws].pc = "join"]

RxClose ==
    \E ws \in DOMAIN sessions :
        /\ sessions[ws].pc = "rx"
        /\ teardown_signal(ws)
        /\ last_call' = Call("rx_close", sessions[ws].br_id, ws, None)
        /\ UNCHANGED <<regvars, now, next_sweep, concvars, ops, aggvars, tablevars, ipv6_mapping,
                       ws_out, workers, emitted, next_id, rx_count, enq_log>>

\* tx_thread.join(timeout=2.0) returns: the thread has ended, or it is
\* blocked (in ws.send, or on a queue that holds nothing) when the 2 s pass
JoinReturns(t) ==
    \/ ~Alive(t)
    \/ workers[t].pc = "send"
    \/ workers[t].pc = "get" /\ queues[workers[t].q] = <<>>

\* lines 639-654: join the thread tx_threads holds for br_id, then release
teardown_release(ws) ==
    LET br_id == sessions[ws].br_id
    IN  /\ br_id \in DOMAIN tx_threads => JoinReturns(tx_threads[br_id])
        /\ tx_threads' = IF br_id \in DOMAIN tx_threads
                         THEN Del(tx_threads, br_id) ELSE tx_threads
        /\ unregister_br(br_id)
        /\ active_connections' = IF br_id \in DOMAIN active_connections
                                 THEN Del(active_connections, br_id)
                                 ELSE active_connections
        /\ message_queues' = IF br_id \in DOMAIN message_queues
                             THEN Del(message_queues, br_id) ELSE message_queues
        /\ sessions' = [sessions EXCEPT ![ws].pc = "closed"]

Teardown ==
    \E ws \in DOMAIN sessions :
        /\ sessions[ws].pc = "join"
        /\ teardown_release(ws)
        /\ last_call' = Call("teardown", sessions[ws].br_id, ws,
                             IF sessions[ws].br_id \in DOMAIN tx_threads
                             THEN Alive(tx_threads[sessions[ws].br_id]) ELSE FALSE)
        /\ UNCHANGED <<now, next_sweep, concvars, ops, aggvars, ipv6_mapping, ws_out, workers, queues,
                       emitted, next_id, rx_count, enq_log>>

\* lines 633-654 run once more for a session they have already released
TeardownAgain ==
    \E ws \in DOMAIN sessions :
        LET br_id == sessions[ws].br_id
        IN  /\ sessions[ws].pc = "closed"
            /\ queues' = IF br_id \in DOMAIN message_queues
                         THEN QueuePut(queues, message_queues[br_id], Sentinel)
                         ELSE queues
            /\ br_id \in DOMAIN tx_threads => JoinReturns(tx_threads[br_id])
            /\ tx_threads' = IF br_id \in DOMAIN tx_threads
                             THEN Del(tx_threads, br_id) ELSE tx_threads
            /\ unregister_br(br_id)
            /\ active_connections' = IF br_id \in DOMAIN active_connections
                                     THEN Del(active_connections, br_id)
                                     ELSE active_connections
            /\ message_queues' = IF br_id \in DOMAIN message_queues
                                 THEN Del(message_queues, br_id) ELSE message_queues
            /\ last_call' = Call("teardown_again", br_id, ws, None)
            /\ UNCHANGED <<now, next_sweep, concvars, ops, aggvars, ipv6_mapping, sessions, ws_out,
                           workers, emitted, next_id, rx_count, enq_log>>

\* ------------------------------------------------------------------------
\* handle_message and the handlers it routes to
\* ------------------------------------------------------------------------
Emit(event, node, br_id, arg) ==
    [event |-> event, node |-> node, br_id |-> br_id, arg |-> arg]

\* the frame is dropped: nothing of the handler, the registry or the
\* session changes
Discard ==
    UNCHANGED <<regvars, tablevars, workers, queues, ipv6_mapping, ws_out,
                emitted, sessions, next_id, enq_log>>

handle_heartbeat(br_id, data, ws) ==
    LET nodes_count == IF "nodes_count" \in DOMAIN data THEN data.nodes_count ELSE 0
        t == Len(workers) + 1
    IN  IF br_id \notin DOMAIN active_connections
        THEN \* auto-registration: the tables are filled, then
             \* border_router_manager.is_br_registered raises AttributeError
             \* (BorderRouterManager has no such method) and handle_message
             \* catches it: no update_heartbeat, no heartbeat_ack
             /\ active_connections' = Put(active_connections, br_id, ws)
             /\ IF br_id \notin DOMAIN message_queues
                THEN /\ t <= MaxWorkers
                     /\ queues' = Append(queues, <<>>)
                     /\ message_queues' = Put(message_queues, br_id, t)
                     /\ workers' = Append(workers, NewWorker(br_id, ws))
                     /\ tx_threads' = Put(tx_threads, br_id, t)
                ELSE UNCHANGED <<queues, message_queues, workers, tx_threads>>
             /\ UNCHANGED <<regvars, ipv6_mapping, ws_out, emitted, sessions,
                            next_id, enq_log>>
        ELSE /\ update_heartbeat(br_id, nodes_count)
             /\ ws_out' = WsSend(ws_out, ws, HeartbeatAck)
             /\ ipv6_mapping' =
                  LET gw == {ip \in DOMAIN ipv6_mapping :
                                /\ ipv6_mapping[ip].node_name = "gateway"
                                /\ ipv6_mapping[ip].br_id = br_id}
                  IN  IF gw = {} THEN ipv6_mapping
                      ELSE [ipv6_mapping EXCEPT ![CHOOSE ip \in gw : TRUE].last_seen = now]
             /\ UNCHANGED <<tablevars, workers, queues, emitted, sessions,
                            next_id, enq_log>>

\* handle_node_event_with_ipv6 with is_new_node always true
handle_node_event_always_new(br_id, data) ==
    LET source_ipv6 == Get(data, "source_ipv6")
        event_type == Get(data, "event_type")
        resolved == resolve_ipv6_to_node_name(source_ipv6)
        node_name == IF resolved = None THEN unknown_name(source_ipv6) ELSE resolved
    IN  IF source_ipv6 = None \/ event_type = None
        THEN Discard
        ELSE /\ ipv6_mapping' = update_ipv6_mapping(ipv6_mapping, source_ipv6, node_name, br_id)
             /\ emitted' = emitted
                  \o <<Emit("node_update", node_name, br_id, source_ipv6),
                       Emit("topology_refresh", None, None, None)>>
                  \o <<Emit("node_event", node_name, br_id, event_type)>>
             /\ increment_event_counter(br_id)
             /\ UNCHANGED <<tablevars, workers, queues, ws_out, sessions,
                            next_id, enq_log>>

\* handle_node_event_with_ipv6 that keeps the mapping entry of a known address
handle_node_event_keep_mapping(br_id, data) ==
    LET source_ipv6 == Get(data, "source_ipv6")
        event_type == Get(data, "event_type")
        is_new_node == source_ipv6 \notin DOMAIN ipv6_mapping
        resolved == resolve_ipv6_to_node_name(source_ipv6)
        node_name == IF resolved = None THEN unknown_name(source_ipv6) ELSE resolved
    IN  IF source_ipv6 = None \/ event_type = None
        THEN Discard
        ELSE /\ ipv6_mapping' = IF is_new_node
                                THEN update_ipv6_mapping(ipv6_mapping, source_ipv6, node_name, br_id)
                                ELSE ipv6_mapping
             /\ emitted' = emitted
                  \o (IF is_new_node
                      THEN <<Emit("node_update", node_name, br_id, source_ipv6),
                             Emit("topology_refresh", None, None, None)>>
                      ELSE <<>>)
                  \o <<Emit("node_event", node_name, br_id, event_type)>>
             /\ increment_event_counter(br_id)
             /\ UNCHANGED <<tablevars, workers, queues, ws_out, sessions,
                            next_id, enq_log>>

handle_node_event_with_ipv6(br_id, data) ==
    LET source_ipv6 == Get(data, "source_ipv6")
        event_type == Get(data, "event_type")
        is_new_node == source_ipv6 \notin DOMAIN ipv6_mapping
        resolved == resolve_ipv6_to_node_name(source_ipv6)
        node_name == IF resolved = None THEN unknown_name(source_ipv6) ELSE resolved
    IN  IF source_ipv6 = None \/ event_type = None
        THEN Discard
        ELSE /\ ipv6_mapping' = update_ipv6_mapping(ipv6_mapping, source_ipv6, node_name, br_id)
             /\ emitted' = emitted
                  \o (IF is_new_node
                      THEN <<Emit("node_update", node_name, br_id, source_ipv6),
                             Emit("topology_refresh", None, None, None)>>
                      ELSE <<>>)
                  \o <<Emit("node_event", node_name, br_id, event_type)>>
             /\ increment_event_counter(br_id)
             /\ UNCHANGED <<tablevars, workers, queues, ws_out, sessions,
                            next_id, enq_log>>

handle_node_discovered(br_id, data) ==
    LET source_ipv6 == Get(data, "source_ipv6")
        resolved == resolve_ipv6_to_node_name(source_ipv6)
        node_name == IF resolved = None THEN unknown_name(source_ipv6) ELSE resolved
    IN  IF source_ipv6 = None
        THEN Discard
        ELSE /\ ipv6_mapping' = update_ipv6_mapping(ipv6_mapping, source_ipv6, node_name, br_id)
             /\ emitted' = Append(emitted, Emit("node_discovered", node_name, br_id, source_ipv6))
             /\ UNCHANGED <<regvars, tablevars, workers, queues, ws_out, sessions,
                            next_id, enq_log>>

handle_command_response(br_id, data) ==
    IF "request_id" \notin DOMAIN data
    THEN Discard
    ELSE /\ emitted' = Append(emitted, Emit("command_completed", None, br_id, data.request_id))
         /\ UNCHANGED <<regvars, tablevars, workers, queues, ipv6_mapping, ws_out,
                        sessions, next_id, enq_log>>

handle_topology_update(br_id, data) ==
    LET nodes == IF "nodes" \in DOMAIN data THEN data.nodes ELSE <<>>
    IN  /\ update_nodes_list(br_id, nodes)
        /\ emitted' = Append(emitted, Emit("topology_update", None, br_id, Len(nodes)))
        /\ UNCHANGED <<tablevars, workers, queues, ipv6_mapping, ws_out, sessions,
                       next_id, enq_log>>

\* a mutant of handle_message: a frame that is not JSON ends the RX loop
handle_message_raises(br_id, message, ws) ==
    /\ queues' = IF br_id \in DOMAIN message_queues
                 THEN QueuePut(queues, message_queues[br_id], Sentinel) ELSE queues
    /\ sessions' = [sessions EXCEPT ![ws].pc = "join"]
    /\ UNCHANGED <<regvars, tablevars, workers, ipv6_mapping, ws_out, emitted,
                   next_id, enq_log>>

\* scan_node_result and diagnostic_* frames are not among InFrames
handle_message(br_id, message, ws) ==
    IF message.json = "invalid"
    THEN Discard        \* json.JSONDecodeError, caught
    ELSE IF message.json = "array"
    THEN Discard        \* data.get raises AttributeError, caught
    ELSE LET data == message.data
             msg_type == Get(data, "type")
         IN  IF msg_type = None THEN Discard
             ELSE IF msg_type = "heartbeat" THEN handle_heartbeat(br_id, data, ws)
             ELSE IF msg_type = "node_event" THEN handle_node_event_with_ipv6(br_id, data)
             ELSE IF msg_type = "node_discovered" THEN handle_node_discovered(br_id, data)
             ELSE IF msg_type = "command_response" THEN handle_command_response(br_id, data)
             ELSE IF msg_type = "topology_update" THEN handle_topology_update(br_id, data)
             ELSE Discard

\* the frames a BR may send
InFrames ==
    << [json |-> "invalid"],
       [json |-> "array"],
       [json |-> "object", data |-> [nodes_count |-> 1]],
       [json |-> "object", data |-> [type |-> "bogus"]],
       [json |-> "object", data |-> [type |-> "heartbeat"]],
       [json |-> "object", data |-> [type |-> "node_event", source_ipv6 |-> "fd78::a1",
                                     event_type |-> "button"]],
       [json |-> "object", data |-> [type |-> "node_event", source_ipv6 |-> "fd78::ff",
                                     event_type |-> "button"]],
       [json |-> "object", data |-> [type |-> "node_event", event_type |-> "button"]],
       [json |-> "object", data |-> [type |-> "node_discovered", source_ipv6 |-> "fd78::a2"]],
       [json |-> "object", data |-> [type |-> "node_discovered"]],
       [json |-> "object", data |-> [type |-> "command_response", request_id |-> 1]],
       [json |-> "object", data |-> [type |-> "command_response", status |-> "ok"]],
       [json |-> "object", data |-> [type |-> "topology_update", nodes |-> <<"n2">>]],
       [json |-> "object", data |-> [type |-> "node_event", source_ipv6 |-> "fd78::a2",
                                     event_type |-> "button"]] >>

\* lines 616-631: one turn of the RX loop, the frame read being one of `frames`
RxLoop(frames) ==
    \E ws \in DOMAIN sessions, i \in frames :
        /\ sessions[ws].pc = "rx"
        /\ rx_count < MaxRx
        /\ handle_message(sessions[ws].br_id, InFrames[i], ws)
        /\ rx_count' = rx_count + 1
        /\ last_call' = Call("handle_message", sessions[ws].br_id, i, ws)
        /\ UNCHANGED <<now, next_sweep, concvars, ops, aggvars>>

Receive == RxLoop(DOMAIN InFrames)

\* the well-formed heartbeat and the node_event of a configured node
LiveFrames ==
    {i \in DOMAIN InFrames :
        /\ InFrames[i].json = "object"
        /\ "type" \in DOMAIN InFrames[i].data
        /\ \/ InFrames[i].data.type = "heartbeat"
           \/ /\ InFrames[i].data.type = "node_event"
              /\ "source_ipv6" \in DOMAIN InFrames[i].data
              /\ resolve_ipv6_to_node_name(InFrames[i].data.source_ipv6) # None}

ReceiveLive == RxLoop(LiveFrames)

\* ------------------------------------------------------------------------
\* Commands to a BR
\* ------------------------------------------------------------------------
ScanFrame(request_id, target_ipv6, node_name) ==
    Frame("scan_node", request_id, target_ipv6, None, node_name)

CoapFrame(request_id, target_ipv6, command_type, payload) ==
    Frame("send_coap", request_id, target_ipv6, command_type, payload)

\* the value send_scan_node_command returns
send_scan_node_ok(br_id) ==
    br_id \in DOMAIN active_connections /\ br_id \in DOMAIN message_queues

send_scan_node_command(br_id, target_ipv6, node_name, request_id) ==
    IF send_scan_node_ok(br_id)
    THEN /\ queues' = QueuePut(queues, message_queues[br_id],
                               ScanFrame(request_id, target_ipv6, node_name))
         /\ enq_log' = Append(enq_log, [request_id |-> request_id, br_id |-> br_id,
                                        q |-> message_queues[br_id],
                                        ws |-> active_connections[br_id]])
    ELSE UNCHANGED <<queues, enq_log>>

SendScanNode ==
    \E br_id \in BrIds :
        /\ next_id < MaxMsgs
        /\ next_id' = next_id + 1
        /\ send_scan_node_command(br_id, "fe80::01", "node_c001", next_id + 1)
        /\ last_call' = Call("send_scan_node_command", br_id, next_id + 1,
                             send_scan_node_ok(br_id))
        /\ UNCHANGED <<regvars, now, next_sweep, concvars, ops, aggvars, tablevars, ipv6_mapping,
                       sessions, ws_out, workers, emitted, rx_count>>

\* the value send_command_to_node returns
send_command_to_node_ok(node_name) ==
    /\ resolve_node_name_to_ipv6(node_name) # None
    /\ handler_get_br_for_node(node_name) # None
    /\ handler_get_br_for_node(node_name) \in DOMAIN active_connections
    /\ WsOpen(active_connections[handler_get_br_for_node(node_name)])

send_command_to_node(node_name, command_type, payload) ==
    LET ipv6 == resolve_node_name_to_ipv6(node_name)
        br_id == handler_get_br_for_node(node_name)
    IN  IF ipv6 = None \/ br_id = None \/ br_id \notin DOMAIN active_connections
        THEN UNCHANGED <<ws_out, next_id>>
        ELSE /\ next_id' = next_id + 1
             /\ ws_out' = WsSend(ws_out, active_connections[br_id],
                                 CoapFrame(next_id + 1, ipv6, command_type, payload))

SendCommandToNode ==
    \E node_name \in NodeNames \cup {"n9"} :
        /\ next_id < MaxMsgs
        /\ send_command_to_node(node_name, "audio", "play:341")
        /\ last_call' = Call("send_command_to_node", handler_get_br_for_node(node_name),
                             node_name, send_command_to_node_ok(node_name))
        /\ UNCHANGED <<regvars, now, next_sweep, concvars, ops, aggvars, tablevars, ipv6_mapping,
                       sessions, workers, queues, emitted, rx_count, enq_log>>

\* ------------------------------------------------------------------------
\* NetworkTopologyAggregator (lib/network_topology_aggregator.py)
\* ------------------------------------------------------------------------
\* str.lower() on the strings the events carry
LowerTable ==
    [AA |-> "aa", C400 |-> "c400", C800 |-> "c800", Router |-> "router"]
        @@ ("FD78::A1" :> "fd78::a1")
Lower(x) == IF x \in DOMAIN LowerTable THEN LowerTable[x] ELSE x

\* `not x` for a string that may be absent (None) or empty
Falsy(x) == x = None \/ x = ""

\* addresses within mesh_local_prefix, and those with the RLOC/ALOC IID
\* pattern 0000:00ff:fe00:xxxx
MeshLocalAddrs == {"fd00::1", "fd00::2", "fd00::ff:fe00:c400", "fd78::a1"}
RlocAddrs == {"fd00::ff:fe00:c400"}

is_rloc(addr) == addr \in RlocAddrs

extract_mleids(ip_list) ==
    LET kept == SelectSeq(ip_list, LAMBDA ip : ip \in MeshLocalAddrs /\ ~is_rloc(ip))
    IN  [k \in DOMAIN kept |-> Lower(kept[k])]

NewNode(partition, ext_addr) ==
    [ext_addr |-> ext_addr, partition_id |-> partition, rloc16s |-> {},
     mleids |-> {}, roles |-> {}, br_ids |-> {}, is_br |-> FALSE, last_seen |-> 0]

\* the event passes the guard of lines 139-141
upsert_node_accepts(event) ==
    ~(event.partition = NoneInt \/ event.partition = 0 \/ Falsy(event.ext_addr))

\* the node table after upsert_node(event, br_id)
upsert_node(tbl, event, br_id) ==
    LET partition == event.partition
        ext_addr == Lower(event.ext_addr)
        key == <<partition, ext_addr>>
        node == IF key \in DOMAIN tbl THEN tbl[key] ELSE NewNode(partition, ext_addr)
    IN  IF ~upsert_node_accepts(event) THEN tbl
        ELSE Put(tbl, key,
                 [node EXCEPT
                    !.rloc16s = IF Falsy(event.rloc16) THEN @
                                ELSE @ \cup {Lower(event.rloc16)},
                    !.roles = IF Falsy(event.role) THEN @ ELSE @ \cup {Lower(event.role)},
                    !.is_br = IF event.is_br THEN TRUE ELSE @,
                    !.mleids = IF event.mleids # <<>>
                               THEN @ \cup {Lower(m) : m \in Range(event.mleids)}
                               ELSE IF event.ipv6_list # <<>>
                               THEN @ \cup Range(extract_mleids(event.ipv6_list))
                               ELSE @,
                    !.br_ids = @ \cup {br_id},
                    !.last_seen = now])

\* sorted([a, b]) on the rloc16 strings of the model
Rloc16Rank == [c400 |-> 1, c800 |-> 2, c801 |-> 3]
SortedPair(a, b) == IF Rloc16Rank[a] <= Rloc16Rank[b] THEN <<a, b>> ELSE <<b, a>>

upsert_router_link_accepts(event) == ~(Falsy(event.a_rloc16) \/ Falsy(event.b_rloc16))

\* the router-link table after upsert_router_link(event)
upsert_router_link(tbl, event) ==
    LET a == Lower(event.a_rloc16)
        b == Lower(event.b_rloc16)
    IN  IF ~upsert_router_link_accepts(event) THEN tbl
        ELSE Put(tbl, SortedPair(a, b),
                 [avg_rssi |-> event.avg_rssi, last_rssi |-> event.last_rssi,
                  lqi |-> event.lqi, margin_db |-> event.margin_db,
                  frame_err |-> event.frame_err, msg_err |-> event.msg_err,
                  last_seen |-> now])

upsert_child_link_accepts(event) ==
    ~(Falsy(event.parent_rloc16) \/ Falsy(event.child_rloc16))

\* the child-link table after upsert_child_link(event, br_id)
upsert_child_link(tbl, event) ==
    IF ~upsert_child_link_accepts(event) THEN tbl
    ELSE Put(tbl, <<Lower(event.parent_rloc16), Lower(event.child_rloc16)>>,
             [avg_rssi |-> event.avg_rssi, last_rssi |-> event.last_rssi,
              lqi |-> event.lqi, mode |-> event.mode, version |-> event.version,
              last_seen |-> now])

\* lines 268-277: the node event upsert_child_link hands to upsert_node
child_node_event(event) ==
    [partition |-> event.partition, ext_addr |-> event.child_ext_addr,
     rloc16 |-> Lower(event.child_rloc16), role |-> "child", ipv6_list |-> <<>>,
     mleids |-> event.child_mleids, is_br |-> FALSE]

\* the child event carries the keys 'child_ext_addr' and 'partition'
child_has_node(event) ==
    /\ upsert_child_link_accepts(event)
    /\ event.child_ext_addr # None
    /\ event.partition # NoneInt

\* ------------------------------------------------------------------------
\* Name resolution over the configuration and the topology
\* (NativeWebSocketHandler.resolve_ipv6_to_node_name, lines 175-270).
\* resolve_ipv6_to_node_name above is this resolution with an empty topology.
\* ------------------------------------------------------------------------
\* extract_rloc16_from_rloc_ipv6: the rloc16 of an address with the RLOC IID
Rloc16Of == [a \in RlocAddrs |-> "c400"]

extract_rloc16_from_rloc_ipv6(ipv6) == IF ipv6 \in RlocAddrs THEN Rloc16Of[ipv6] ELSE None

\* the names of config/adresses.json whose address is addr, compared in
\* lower case
ConfigNames(addr) == {n \in DOMAIN AddrConfig : Lower(AddrConfig[n]) = Lower(addr)}

\* the values resolve_ipv6_to_node_name(ipv6) can return: list(set) orders
\* the ML-EIDs of a node in any order, and the nodes of the topology come in
\* insertion order
resolve_results(ipv6) ==
    LET nodes == {agg_nodes[k] : k \in DOMAIN agg_nodes}
        \* lines 212-227: business names of the nodes that hold ipv6 as ML-EID
        by_mleid == UNION {UNION {ConfigNames(m) : m \in node.mleids} :
                             node \in {x \in nodes : Lower(ipv6) \in x.mleids}}
        rloc16 == extract_rloc16_from_rloc_ipv6(ipv6)
        \* lines 236-256: the first node with the rloc16, its first ML-EID
        by_rloc(node) ==
            IF node.mleids = {} THEN {rloc16}
            ELSE UNION {IF ConfigNames(m) # {} THEN ConfigNames(m) ELSE {rloc16} :
                           m \in node.mleids}
        with_rloc == {x \in nodes : rloc16 \in x.rloc16s}
    IN  IF ConfigNames(ipv6) # {} THEN ConfigNames(ipv6)
        ELSE IF by_mleid # {} THEN by_mleid
        ELSE IF rloc16 # None /\ with_rloc # {} THEN UNION {by_rloc(x) : x \in with_rloc}
        ELSE {None}

\* ------------------------------------------------------------------------
\* Link-local address of an Extended Address
\* (NativeWebSocketHandler.calculate_linklocal_from_extaddr, lines 363-401).
\* Strings are sequences of one-character strings.
\* ------------------------------------------------------------------------
HexChars == <<"0", "1", "2", "3", "4", "5", "6", "7",
              "8", "9", "a", "b", "c", "d", "e", "f">>

UpperHex == [A |-> "a", B |-> "b", C |-> "c", D |-> "d", E |-> "e", F |-> "f"]

\* str.lower() of one character
LowerChar(c) == IF c \in DOMAIN UpperHex THEN UpperHex[c] ELSE c

IsHexChar(c) == \E i \in DOMAIN HexChars : HexChars[i] = c

HexVal(c) == (CHOOSE i \in DOMAIN HexChars : HexChars[i] = c) - 1

\* f"{b:02x}"
Hex02(b) == <<HexChars[(b \div 16) + 1], HexChars[(b % 16) + 1]>>

\* b ^ 0x02
Xor02(b) == IF (b \div 2) % 2 = 1 THEN b - 2 ELSE b + 2

\* None where the value is an address string
NoAddr == <<>>

\* calculate_linklocal_from_extaddr without the U/L flip
calculate_linklocal_no_flip(ext_addr) ==
    LET no_colons == SelectSeq(ext_addr, LAMBDA c : c # ":")
        ext_addr_clean == [i \in DOMAIN no_colons |-> LowerChar(no_colons[i])]
    IN  IF Len(ext_addr_clean) # 16 THEN NoAddr
        ELSE IF \E i \in 1..16 : ~IsHexChar(ext_addr_clean[i]) THEN NoAddr
        ELSE <<"f", "e", "8", "0", ":", ":">>
               \o SubSeq(ext_addr_clean, 1, 4) \o <<":">>
               \o SubSeq(ext_addr_clean, 5, 8) \o <<":">>
               \o SubSeq(ext_addr_clean, 9, 12) \o <<":">>
               \o SubSeq(ext_addr_clean, 13, 16)

calculate_linklocal_from_extaddr(ext_addr) ==
    LET no_colons == SelectSeq(ext_addr, LAMBDA c : c # ":")
        ext_addr_clean == [i \in DOMAIN no_colons |-> LowerChar(no_colons[i])]
    IN  IF Len(ext_addr_clean) # 16 THEN NoAddr
        \* bytes.fromhex raises ValueError on a character that is no hex
        \* digit; it skips blanks between bytes, which leaves fewer than 8
        \* bytes and an IndexError: both are caught and give None
        ELSE IF \E i \in 1..16 : ~IsHexChar(ext_addr_clean[i]) THEN NoAddr
        ELSE LET ext_bytes == [i \in 1..8 |-> 16 * HexVal(ext_addr_clean[2 * i - 1])
                                                + HexVal(ext_addr_clean[2 * i])]
                 iid_bytes == [ext_bytes EXCEPT ![1] = Xor02(@)]
             IN  <<"f", "e", "8", "0", ":", ":">>
                   \o Hex02(iid_bytes[1]) \o Hex02(iid_bytes[2]) \o <<":">>
                   \o Hex02(iid_bytes[3]) \o Hex02(iid_bytes[4]) \o <<":">>
                   \o Hex02(iid_bytes[5]) \o Hex02(iid_bytes[6]) \o <<":">>
                   \o Hex02(iid_bytes[7]) \o Hex02(iid_bytes[8])

\* ------------------------------------------------------------------------
\* scan_node_result (NativeWebSocketHandler.handle_scan_node_result,
\* lines 1213-1347)
\* ------------------------------------------------------------------------
\* "0123456789abcdef" as "01:23:45:67:89:ab:cd:ef"
WithColons(d) ==
    <<d[1], d[2], ":", d[3], d[4], ":", d[5], d[6], ":", d[7], d[8], ":",
      d[9], d[10], ":", d[11], d[12], ":", d[13], d[14], ":", d[15], d[16]>>

ExtA == <<"0", "2", "2", "3", "4", "5", "6", "7", "8", "9", "a", "b", "c", "d", "e", "f">>

ExtB == WithColons(<<"A", "E", "0", "0", "F", "F", "f", "e", "0", "0", "0", "0", "0", "0", "0", "1">>)

ExtBad == <<"0", "g", "2", "3", "4", "5", "6", "7", "8", "9", "a", "b", "c", "d", "e", "f">>

\* the network_info of a scan result: children and neighbors
ChildLists ==
    {<<>>,
     <<[rloc16 |-> "c801", ext_addr |-> ExtA]>>,
     <<[rloc16 |-> "c801", ext_addr |-> ExtA], [rloc16 |-> "c802", ext_addr |-> ExtBad],
       [rloc16 |-> "c803", ext_addr |-> <<>>]>>}

NeighborLists ==
    {<<>>,
     <<[rloc16 |-> "c801", ext_addr |-> ExtA, is_child |-> TRUE],
       [rloc16 |-> "0xc800", ext_addr |-> ExtB, is_child |-> FALSE]>>}

\* calculate_linklocal_from_extaddr on the ext_addr values of the scan results
ScanLinkLocal == [e \in {ExtA, ExtB, ExtBad} |-> calculate_linklocal_from_extaddr(e)]

ScanResults ==
    [type : {"scan_node_result"}, success : BOOLEAN, source_ipv6 : {"fd78::a1", "fd78::ff"},
     node_name : {"node_c400"}, request_id : {1},
     children : ChildLists, neighbors : NeighborLists]

\* node_info['rloc16'].replace('0x', '')
StripHexPrefix(rloc16) == IF rloc16 = "0xc800" THEN "c800" ELSE rloc16

\* discovered_nodes of lines 1268-1309: the entries with an ext_addr whose
\* link-local address could be calculated, neighbors flagged is_child skipped
discovered_nodes(data) ==
    LET usable(e) == e.ext_addr # <<>> /\ ScanLinkLocal[e.ext_addr] # NoAddr
        found == SelectSeq(data.children, usable)
                   \o SelectSeq(data.neighbors, LAMBDA e : ~e.is_child /\ usable(e))
    IN  [k \in DOMAIN found |->
            [ipv6 |-> ScanLinkLocal[found[k].ext_addr],
             rloc16 |-> found[k].rloc16, ext_addr |-> found[k].ext_addr]]

handle_scan_node_result(br_id, data) ==
    LET source_ipv6 == data.source_ipv6
        node_name_business == resolve_ipv6_to_node_name(source_ipv6)
        node_name == IF node_name_business # None THEN node_name_business ELSE data.node_name
        found == discovered_nodes(data)
        sent == [k \in DOMAIN found |->
                    ScanFrame(next_id + k, found[k].ipv6,
                              "node_" \o StripHexPrefix(found[k].rloc16))]
    IN  IF ~data.success
        THEN Discard
        ELSE /\ ipv6_mapping' = IF node_name_business # None
                                THEN update_ipv6_mapping(ipv6_mapping, source_ipv6,
                                                         node_name_business, br_id)
                                ELSE ipv6_mapping
             /\ next_id' = next_id + Len(found)
             /\ IF send_scan_node_ok(br_id)
                THEN /\ queues' = [queues EXCEPT ![message_queues[br_id]] = @ \o sent]
                     /\ enq_log' = enq_log \o
                          [k \in DOMAIN found |->
                              [request_id |-> next_id + k, br_id |-> br_id,
                               q |-> message_queues[br_id], ws |-> active_connections[br_id]]]
                ELSE UNCHANGED <<queues, enq_log>>
             /\ emitted' = Append(emitted, Emit("scan_node_result", node_name, br_id,
                                                data.request_id))
             /\ UNCHANGED <<regvars, tablevars, workers, ws_out, sessions>>

\* one turn of the RX loop, the frame read being a scan_node_result, which
\* handle_message routes to handle_scan_node_result
ReceiveScan ==
    \E ws \in DOMAIN sessions, data \in ScanResults :
        /\ sessions[ws].pc = "rx"
        /\ rx_count < MaxRx
        /\ data.success => next_id + Len(discovered_nodes(data)) <= MaxMsgs
        /\ handle_scan_node_result(sessions[ws].br_id, data)
        /\ rx_count' = rx_count + 1
        /\ last_call' = Call("handle_scan_node_result", sessions[ws].br_id, data, ws)
        /\ UNCHANGED <<now, next_sweep, concvars, ops, aggvars>>

\* ------------------------------------------------------------------------
\* ipaddress.IPv6Address on the address strings of the model, and the
\* address classes (is_rloc lines 53-80, extract_mleids lines 82-117)
\* ------------------------------------------------------------------------
\* the groups of an address string: the pieces between colons
RECURSIVE SplitColons(_)
SplitColons(s) ==
    IF \A i \in DOMAIN s : s[i] # ":" THEN <<s>>
    ELSE LET p == CHOOSE i \in DOMAIN s : s[i] = ":" /\ \A j \in 1..(i - 1) : s[j] # ":"
         IN  <<SubSeq(s, 1, p - 1)>> \o SplitColons(SubSeq(s, p + 1, Len(s)))

RECURSIVE GroupValue(_)
GroupValue(g) ==
    IF g = <<>> THEN 0 ELSE 16 * GroupValue(SubSeq(g, 1, Len(g) - 1)) + HexVal(g[Len(g)])

\* the string is an address of 8 groups, or of fewer around one "::"
WellFormed(s) ==
    LET parts == SplitColons(s)
        gaps == {i \in DOMAIN parts : parts[i] = <<>>}
    IN  /\ \A i \in DOMAIN s : s[i] = ":" \/ IsHexChar(LowerChar(s[i]))
        /\ \A i \in DOMAIN parts : Len(parts[i]) <= 4
        /\ \/ gaps = {} /\ Len(parts) = 8
           \/ /\ Cardinality(gaps) = 1
              /\ Len(parts) <= 8
              /\ gaps \cap {1, Len(parts)} = {}

\* the eight 16-bit groups of a well-formed address
ParseIPv6(s) ==
    LET parts == [i \in DOMAIN SplitColons(s) |->
                     [k \in DOMAIN SplitColons(s)[i] |-> LowerChar(SplitColons(s)[i][k])]]
    IN  IF \A i \in DOMAIN parts : parts[i] # <<>>
        THEN [i \in DOMAIN parts |-> GroupValue(parts[i])]
        ELSE LET gap == CHOOSE i \in DOMAIN parts : parts[i] = <<>>
                 head == SubSeq(parts, 1, gap - 1)
                 tail == SubSeq(parts, gap + 1, Len(parts))
                 zeros == [i \in 1..(8 - Len(head) - Len(tail)) |-> 0]
             IN  [i \in DOMAIN head |-> GroupValue(head[i])] \o zeros
                   \o [i \in DOMAIN tail |-> GroupValue(tail[i])]

\* is_rloc on an address string: IID bytes 00 00 00 ff fe 00 xx xx; a string
\* IPv6Address rejects raises, which is caught and gives False
is_rloc_addr(addr) ==
    /\ WellFormed(addr)
    /\ ParseIPv6(addr)[5] = 0
    /\ ParseIPv6(addr)[6] = 255
    /\ ParseIPv6(addr)[7] = 65024

\* ip in IPv6Network("fd00::/8"), the default mesh_local_prefix
in_mesh_local_prefix(addr) == WellFormed(addr) /\ ParseIPv6(addr)[1] \div 256 = 253

\* the test of extract_mleids, line 108
is_mleid(addr) == in_mesh_local_prefix(addr) /\ ~is_rloc_addr(addr)

\* link-local: fe80::/10
is_linklocal(addr) == WellFormed(addr) /\ ParseIPv6(addr)[1] \div 64 = 1018

\* ------------------------------------------------------------------------
\* SpecAgg: the aggregator driven through its public methods
\* ------------------------------------------------------------------------
\* diagnostic_node events; absent keys are None / NoneInt / an empty list
NodeEvents ==
    [partition : {NoneInt, 0, 1, 2}, ext_addr : {None, "aa"},
     rloc16 : {None, "c400", "C800"}, role : {None, "router"},
     ipv6_list : {<<>>, <<"fd00::1", "fd00::ff:fe00:c400">>},
     mleids : {<<>>}, is_br : {FALSE}]

\* the events of one node that keeps reporting
RecentEvents ==
    [partition : {1, 2}, ext_addr : {"aa"}, rloc16 : {None, "c400"}, role : {"router"},
     ipv6_list : {<<"fd00::1", "fd00::ff:fe00:c400">>}, mleids : {<<>>}, is_br : {FALSE}]

\* diagnostic_link events
LinkEvents ==
    [partition : {1, 2}, a_rloc16 : {None, "c400", "c800"}, b_rloc16 : {"c400", "c800"},
     avg_rssi : {NoneInt, 0 - 60, 0 - 70}, last_rssi : {NoneInt}, lqi : {NoneInt, 3},
     margin_db : {NoneInt}, frame_err : {NoneInt}, msg_err : {NoneInt}]

\* diagnostic_child events
ChildEvents ==
    [partition : {NoneInt, 1}, parent_rloc16 : {None, "c400"}, child_rloc16 : {"c801"},
     child_ext_addr : {None, "aa"}, child_mleids : {<<"fd00::2">>},
     avg_rssi : {NoneInt, 0 - 60}, last_rssi : {NoneInt}, lqi : {NoneInt},
     mode : {None, "sed"}, version : {NoneInt}]

\* what a node event reports about the node (partition, ext_addr), if it
\* names one
Observed(event, br_id) ==
    IF event.partition = NoneInt \/ Falsy(event.ext_addr) THEN {}
    ELSE {[partition |-> event.partition, ext_addr |-> Lower(event.ext_addr),
           rloc16s |-> IF Falsy(event.rloc16) THEN {} ELSE {Lower(event.rloc16)},
           roles |-> IF Falsy(event.role) THEN {} ELSE {Lower(event.role)},
           mleids |-> IF event.mleids # <<>>
                      THEN {Lower(m) : m \in Range(event.mleids)}
                      ELSE Range(extract_mleids(event.ipv6_list)),
           br_id |-> br_id, at |-> now]}

UpsertNodeOf(events) ==
    \E event \in events, br_id \in BrIds :
        /\ ops < MaxReports
        /\ agg_nodes' = upsert_node(agg_nodes, event, br_id)
        /\ reported' = reported \cup Observed(event, br_id)
        /\ last_call' = Call("upsert_node", br_id, event, upsert_node_accepts(event))
        /\ ops' = ops + 1
        /\ UNCHANGED <<regvars, now, next_sweep, concvars, hvars, router_links, child_links,
                       link_latest>>

UpsertRouterLink ==
    \E event \in LinkEvents :
        /\ ops < MaxReports
        /\ router_links' = upsert_router_link(router_links, event)
        /\ link_latest' =
             IF upsert_router_link_accepts(event)
             THEN Put(link_latest,
                      <<event.partition, {Lower(event.a_rloc16), Lower(event.b_rloc16)}>>,
                      [avg_rssi |-> event.avg_rssi, lqi |-> event.lqi])
             ELSE link_latest
        /\ last_call' = Call("upsert_router_link", None, event,
                             upsert_router_link_accepts(event))
        /\ ops' = ops + 1
        /\ UNCHANGED <<regvars, now, next_sweep, concvars, hvars, agg_nodes, child_links, reported>>

UpsertChildLink ==
    \E event \in ChildEvents, br_id \in BrIds :
        /\ ops < MaxReports
        /\ child_links' = upsert_child_link(child_links, event)
        /\ agg_nodes' = IF child_has_node(event)
                        THEN upsert_node(agg_nodes, child_node_event(event), br_id)
                        ELSE agg_nodes
        /\ reported' = IF child_has_node(event)
                       THEN reported \cup Observed(child_node_event(event), br_id)
                       ELSE reported
        /\ last_call' = Call("upsert_child_link", br_id, event,
                             upsert_child_link_accepts(event))
        /\ ops' = ops + 1
        /\ UNCHANGED <<regvars, now, next_sweep, concvars, hvars, router_links, link_latest>>

UpsertNode == UpsertNodeOf(NodeEvents)

UpsertNodeRecent == UpsertNodeOf(RecentEvents)

\* the diagnostic_node events of nodes whose addresses the resolver is asked
ResolveEvents ==
    [partition : {1}, ext_addr : {"aa", "bb"}, rloc16 : {None, "c400"}, role : {None},
     ipv6_list : {<<>>, <<"fd00::1">>, <<"fd78::a1">>, <<"fd00::1", "fd78::a1">>},
     mleids : {<<>>}, is_br : {FALSE}]

UpsertNodeResolve == UpsertNodeOf(ResolveEvents)

\* the addresses resolved: a configured one in both cases, an RLOC, an ML-EID
\* outside the configuration, an unknown one
QueryAddrs == {"fd78::a1", "FD78::A1", "fd00::ff:fe00:c400", "fd00::1", "fd78::ff"}

Resolve ==
    \E ipv6 \in QueryAddrs, name \in UNION {resolve_results(a) : a \in QueryAddrs} :
        /\ ops < MaxReports
        /\ name \in resolve_results(ipv6)
        /\ last_call' = Call("resolve_ipv6_to_node_name", None, ipv6, name)
        /\ ops' = ops + 1
        /\ UNCHANGED <<regvars, now, next_sweep, concvars, hvars, aggvars>>

\* NetworkTopologyAggregator.clear; the records of what was reported start
\* again with the emptied tables
Clear ==
    /\ ops < MaxReports
    /\ agg_nodes' = EmptyDict
    /\ router_links' = EmptyDict
    /\ child_links' = EmptyDict
    /\ reported' = {}
    /\ link_latest' = EmptyDict
    /\ last_call' = Call("clear", None, None, None)
    /\ ops' = ops + 1
    /\ UNCHANGED <<regvars, now, next_sweep, concvars, hvars>>

\* ------------------------------------------------------------------------
\* SpecReg: the registry driven through its public methods
\* ------------------------------------------------------------------------
RegRegister ==
    \E br_id \in BrIds, sid \in Sids, nodes \in NodeLists :
        /\ ops < MaxOps
        /\ register_br(br_id, sid, nodes)
        /\ last_call' = Call("register_br", br_id,
                             [sid |-> sid, old_sid |-> IF br_id \in DOMAIN border_routers
                                                       THEN border_routers[br_id].sid
                                                       ELSE None],
                             TRUE)
        /\ ops' = ops + 1
        /\ UNCHANGED <<now, next_sweep, concvars, gwvars>>

RegUnregister ==
    \E br_id \in BrIds :
        /\ ops < MaxOps
        /\ unregister_br(br_id)
        /\ last_call' = Call("unregister_br", br_id, None, br_id \in DOMAIN border_routers)
        /\ ops' = ops + 1
        /\ UNCHANGED <<now, next_sweep, concvars, gwvars>>

RegHeartbeat ==
    \E br_id \in BrIds, nodes_count \in {NoneInt, 1} :
        /\ ops < MaxOps
        /\ update_heartbeat(br_id, nodes_count)
        /\ last_call' = Call("update_heartbeat", br_id, None, br_id \in DOMAIN border_routers)
        /\ ops' = ops + 1
        /\ UNCHANGED <<now, next_sweep, concvars, gwvars>>

RegUpdateNodes ==
    \E br_id \in BrIds, nodes \in NodeLists :
        /\ ops < MaxOps
        /\ update_nodes_list(br_id, nodes)
        /\ last_call' = Call("update_nodes_list", br_id, None, None)
        /\ ops' = ops + 1
        /\ UNCHANGED <<now, next_sweep, concvars, gwvars>>

RegIncCommand ==
    \E br_id \in BrIds :
        /\ ops < MaxOps
        /\ increment_command_counter(br_id)
        /\ last_call' = Call("increment_command_counter", br_id, None, None)
        /\ ops' = ops + 1
        /\ UNCHANGED <<now, next_sweep, concvars, gwvars>>

RegIncEvent ==
    \E br_id \in BrIds :
        /\ ops < MaxOps
        /\ increment_event_counter(br_id)
        /\ last_call' = Call("increment_event_counter", br_id, None, None)
        /\ ops' = ops + 1
        /\ UNCHANGED <<now, next_sweep, concvars, gwvars>>

\* ------------------------------------------------------------------------
\* BRAuthManager with its file and cache (lib/br_auth.py), and the threads
\* that call add_br_to_config and verify_br_token on the one manager
\* ------------------------------------------------------------------------
\* cache_ttl = 60 seconds, in ticks of 5 seconds
cache_ttl == 12

\* the border_routers of the file at the start
StoredConfig == [b \in DOMAIN BrConfig |-> [auth_token |-> BrConfig[b].auth_token]]

\* threads that add a border router, and what each adds
AddThreads == {1, 2}

NewBrs == <<[br_id |-> "BR3", auth_token |-> "T3"], [br_id |-> "BR4", auth_token |-> "T4"]>>

\* dict objects: one per adding thread, and one for the loads of the verifiers
VerifierRef == Cardinality(AddThreads) + 1

ConfigRefs == AddThreads \cup {VerifierRef}

\* the read of load_config: json.load of a file that is being rewritten
\* raises JSONDecodeError, and {'border_routers': {}} is returned, uncached
FileReadable == config_file.complete

\* add_br_to_config, line 202: load_config(force_reload=True)
AddLoad(t) ==
    /\ adders[t].pc = "idle"
    /\ IF FileReadable
       THEN /\ configs' = [configs EXCEPT ![t] = config_file.border_routers]
            /\ config_cache' = t
            /\ cache_timestamp' = now
       ELSE /\ configs' = [configs EXCEPT ![t] = EmptyDict]
            /\ UNCHANGED <<config_cache, cache_timestamp>>
    /\ adders' = [adders EXCEPT ![t].pc = "set", ![t].config = t]
    /\ last_call' = Call("load_config", adders[t].br_id, None, None)
    /\ UNCHANGED config_file

\* lines 207-212: the entry is stored in the dict the thread loaded
AddSet(t) ==
    /\ adders[t].pc = "set"
    /\ configs' = [configs EXCEPT ![adders[t].config] =
                      Put(@, adders[t].br_id, [auth_token |-> adders[t].auth_token])]
    /\ adders' = [adders EXCEPT ![t].pc = "open"]
    /\ last_call' = Call("set_entry", adders[t].br_id, None, None)
    /\ UNCHANGED <<config_file, config_cache, cache_timestamp>>

\* line 214: open(self.config_file, 'w') truncates the file
AddOpen(t) ==
    /\ adders[t].pc = "open"
    /\ config_file' = [complete |-> FALSE, border_routers |-> EmptyDict]
    /\ adders' = [adders EXCEPT ![t].pc = "dump"]
    /\ last_call' = Call("open_w", adders[t].br_id, None, None)
    /\ UNCHANGED <<config_cache, cache_timestamp, configs>>

\* line 215: json.dump(config, f) and the close of the file
AddDump(t) ==
    /\ adders[t].pc = "dump"
    /\ config_file' = [complete |-> TRUE, border_routers |-> configs[adders[t].config]]
    /\ adders' = [adders EXCEPT ![t].pc = "invalidate"]
    /\ last_call' = Call("json_dump", adders[t].br_id, None, None)
    /\ UNCHANGED <<config_cache, cache_timestamp, configs>>

\* lines 218-221: the cache is dropped and True returned
AddInvalidate(t) ==
    /\ adders[t].pc = "invalidate"
    /\ config_cache' = 0
    /\ adders' = [adders EXCEPT ![t].pc = "done"]
    /\ last_call' = Call("add_br_to_config", adders[t].br_id, adders[t].auth_token, TRUE)
    /\ UNCHANGED <<config_file, cache_timestamp, configs>>

AddBrToConfig ==
    \E t \in AddThreads :
        /\ \/ AddLoad(t)
           \/ AddSet(t)
           \/ AddOpen(t)
           \/ AddDump(t)
           \/ AddInvalidate(t)
        /\ UNCHANGED <<regvars, now, next_sweep, gwvars, upsert_flows, ops>>

\* a check of the border router id alone
verify_known_br(config, br_id, token) == br_id \in DOMAIN config

\* verify_br_token on a loaded config, lines 82-106
verify_in(config, br_id, token) ==
    IF br_id = "" \/ token = "" THEN FALSE
    ELSE IF br_id \notin DOMAIN config THEN FALSE
    ELSE IF config[br_id].auth_token = "" THEN FALSE
    ELSE token = config[br_id].auth_token

\* load_config() of line 86: the cached dict while it is valid
CacheValid == config_cache # 0 /\ (now - cache_timestamp) < cache_ttl

VerifyBrs == {"BR1", "BR3", "BR4", "BRX", ""}

VerifyTokens == {"T1", "T3", "T4", ""}

\* a thread calls verify_br_token while the adders run
VerifyToken ==
    \E br_id \in VerifyBrs, token \in VerifyTokens :
        LET config == IF CacheValid THEN configs[config_cache]
                      ELSE IF FileReadable THEN config_file.border_routers
                      ELSE EmptyDict
        IN  /\ IF ~CacheValid /\ FileReadable
               THEN /\ configs' = [configs EXCEPT ![VerifierRef] = config_file.border_routers]
                    /\ config_cache' = VerifierRef
                    /\ cache_timestamp' = now
               ELSE UNCHANGED <<configs, config_cache, cache_timestamp>>
            /\ last_call' = Call("verify_br_token", br_id, token,
                                 [config |-> config, valid |-> verify_in(config, br_id, token)])
            /\ UNCHANGED <<regvars, now, next_sweep, gwvars, config_file, adders,
                           upsert_flows, ops>>

\* ------------------------------------------------------------------------
\* upsert_node line by line, for RX flows of two sessions that are inside the
\* aggregator at once, and the snapshot another thread takes
\* ------------------------------------------------------------------------
\* the RX flows that may be inside the aggregator at once
RxFlows == {1, 2}

FlowKey(f) == <<upsert_flows[f].event.partition, Lower(upsert_flows[f].event.ext_addr)>>

\* lines 136-157: the guard, and the empty record of a key not yet known
UpsertCreate(f) ==
    \E event \in RecentEvents, br_id \in BrIds :
        LET key == <<event.partition, Lower(event.ext_addr)>>
        IN  /\ upsert_flows[f].pc = "idle"
            /\ ops < MaxReports
            /\ upsert_node_accepts(event)
            /\ agg_nodes' = IF key \in DOMAIN agg_nodes THEN agg_nodes
                            ELSE Put(agg_nodes, key, NewNode(event.partition, Lower(event.ext_addr)))
            /\ upsert_flows' = [upsert_flows EXCEPT ![f] =
                                   [pc |-> "merge", event |-> event, br_id |-> br_id]]
            /\ reported' = reported \cup Observed(event, br_id)
            /\ last_call' = Call("upsert_node", br_id, event, TRUE)
            /\ ops' = ops + 1

\* lines 159-183: rloc16, role, is_br and the ML-EIDs are merged
UpsertMerge(f) ==
    LET event == upsert_flows[f].event
    IN  /\ upsert_flows[f].pc = "merge"
        /\ agg_nodes' =
             [agg_nodes EXCEPT ![FlowKey(f)] =
                [@ EXCEPT
                   !.rloc16s = IF Falsy(event.rloc16) THEN @ ELSE @ \cup {Lower(event.rloc16)},
                   !.roles = IF Falsy(event.role) THEN @ ELSE @ \cup {Lower(event.role)},
                   !.is_br = IF event.is_br THEN TRUE ELSE @,
                   !.mleids = IF event.mleids # <<>>
                              THEN @ \cup {Lower(m) : m \in Range(event.mleids)}
                              ELSE IF event.ipv6_list # <<>>
                              THEN @ \cup Range(extract_mleids(event.ipv6_list))
                              ELSE @]]
        /\ upsert_flows' = [upsert_flows EXCEPT ![f].pc = "track"]
        /\ UNCHANGED <<reported, last_call, ops>>

\* lines 186-189: the reporting border router and the time are recorded
UpsertTrack(f) ==
    /\ upsert_flows[f].pc = "track"
    /\ agg_nodes' = [agg_nodes EXCEPT ![FlowKey(f)] =
                        [@ EXCEPT !.br_ids = @ \cup {upsert_flows[f].br_id},
                                  !.last_seen = now]]
    /\ upsert_flows' = [upsert_flows EXCEPT ![f].pc = "idle"]
    /\ UNCHANGED <<reported, last_call, ops>>

UpsertSteps ==
    \E f \in RxFlows :
        /\ \/ UpsertCreate(f)
           \/ UpsertMerge(f)
           \/ UpsertTrack(f)
        /\ UNCHANGED <<regvars, now, next_sweep, hvars, router_links, child_links,
                       link_latest, authvars>>

\* get_topology, lines 293-304: the node records as the thread finds them
GetTopology ==
    /\ last_call' = Call("get_topology", None, None,
                         {agg_nodes[k] : k \in DOMAIN agg_nodes})
    /\ UNCHANGED <<regvars, now, next_sweep, concvars, ops, gwvars>>

Init ==
    /\ border_routers = EmptyDict
    /\ sid_to_br = EmptyDict
    /\ node_to_br = EmptyDict
    /\ now = 0
    /\ next_sweep = 0
    /\ active_connections = EmptyDict
    /\ message_queues = EmptyDict
    /\ tx_threads = EmptyDict
    /\ ipv6_mapping = EmptyDict
    /\ sessions = <<>>
    /\ ws_out = <<>>
    /\ workers = <<>>
    /\ queues = <<>>
    /\ emitted = <<>>
    /\ next_id = 0
    /\ rx_count = 0
    /\ enq_log = <<>>
    /\ agg_nodes = EmptyDict
    /\ router_links = EmptyDict
    /\ child_links = EmptyDict
    /\ reported = {}
    /\ link_latest = EmptyDict
    /\ config_file = [complete |-> TRUE, border_routers |-> StoredConfig]
    /\ config_cache = 0
    /\ cache_timestamp = 0
    /\ configs = [r \in ConfigRefs |-> EmptyDict]
    /\ adders = [t \in AddThreads |-> [pc |-> "idle", br_id |-> NewBrs[t].br_id,
                                        auth_token |-> NewBrs[t].auth_token, config |-> 0]]
    /\ upsert_flows = [f \in RxFlows |-> [pc |-> "idle", event |-> None, br_id |-> None]]
    /\ last_call = Call("init", None, None, None)
    /\ ops = 0

NextReg ==
    \/ RegRegister
    \/ RegUnregister
    \/ RegHeartbeat
    \/ RegUpdateNodes
    \/ RegIncCommand
    \/ RegIncEvent
    \/ Tick
    \/ Sweep

SpecReg == Init /\ [][NextReg]_vars

TxWorker == \E t \in DOMAIN workers : TxLookup(t) \/ TxGet(t) \/ TxSend(t)

\* ------------------------------------------------------------------------
\* Spec: connections, teardown, TX workers and queued commands
\* ------------------------------------------------------------------------
Next ==
    \/ Accept
    \/ SendConnected
    \/ RxClose
    \/ Teardown
    \/ TxWorker
    \/ SendScanNode

Spec == Init /\ [][Next]_vars

\* ------------------------------------------------------------------------
\* SpecRx: connections, inbound frames and commands routed by node name
\* ------------------------------------------------------------------------
\* Nothing but the shutdown sentinel is queued here, so a TX worker only
\* looks its queue up and blocks on it
TxWorkerIdle == \E t \in DOMAIN workers : TxLookup(t) \/ TxGet(t)

NextRx ==
    \/ Accept
    \/ SendConnected
    \/ Receive
    \/ RxClose
    \/ Teardown
    \/ TxWorkerIdle
    \/ SendCommandToNode

SpecRx == Init /\ [][NextRx]_vars

\* ------------------------------------------------------------------------
\* SpecLive: sessions that stay open while the clock runs
\* ------------------------------------------------------------------------
NextLive ==
    \/ AcceptConfigured
    \/ SendConnected
    \/ ReceiveLive
    \/ SendCommandToNode
    \/ Tick
    \/ Sweep

SpecLive == Init /\ [][NextLive]_vars

\* ------------------------------------------------------------------------
\* SpecTeardown: sessions opened and torn down while the clock runs
\* ------------------------------------------------------------------------
NextTeardown ==
    \/ AcceptConfigured
    \/ SendConnected
    \/ RxClose
    \/ Teardown
    \/ TeardownAgain
    \/ TxWorkerIdle
    \/ Tick
    \/ Sweep

SpecTeardown == Init /\ [][NextTeardown]_vars

NextAgg ==
    \/ UpsertNode
    \/ UpsertRouterLink
    \/ UpsertChildLink
    \/ Clear

SpecAgg == Init /\ [][NextAgg]_vars

\* the Extended Addresses handed to calculate_linklocal_from_extaddr
Tails == {<<"2", "3", "4", "5", "6", "7", "8", "9", "a", "b", "c", "d", "e", "f">>,
          <<"0", "0", "F", "F", "f", "e", "0", "0", "0", "0", "0", "0", "0", "1">>}

Eui64Strings ==
    LET plain == {<<h, l>> \o t : h \in Range(HexChars) \cup {"A", "F"},
                                  l \in Range(HexChars), t \in Tails}
    IN  plain \cup {WithColons(d) : d \in plain}

NotEui64Strings ==
    {<<>>, <<"0", "1">>,
     <<"0">> \o ((CHOOSE t \in Tails : t[1] = "2")),
     <<"0", "1", "2">> \o ((CHOOSE t \in Tails : t[1] = "2")),
     <<"0", "g">> \o ((CHOOSE t \in Tails : t[1] = "2")),
     <<"0", " ">> \o ((CHOOSE t \in Tails : t[1] = "2")),
     <<"0", "1", ":", ":">> \o ((CHOOSE t \in Tails : t[1] = "2")) \o <<":", "0">>}

\* the function is pure: one application in a behaviour reaches every result
LinkLocal ==
    \E ext_addr \in Eui64Strings \cup NotEui64Strings :
        /\ ops = 0
        /\ last_call' = Call("calculate_linklocal_from_extaddr", None, ext_addr,
                             calculate_linklocal_from_extaddr(ext_addr))
        /\ ops' = ops + 1
        /\ UNCHANGED <<regvars, now, next_sweep, concvars, hvars, aggvars>>

\* ------------------------------------------------------------------------
\* The CoAP codec (src/lib/coap/protocol.py).  A packet is a sequence of
\* bytes 0..255, a str a sequence of one-character strings.
\* ------------------------------------------------------------------------
\* str.encode('utf-8') on the alphabet of the model: one byte per character
Utf8 ==
    [c \in {"a", "d", "e", "f", "i", "k", "l", "n", "o", "r", "s", "t", "u", "w", "x", "-", "/"} |->
        CASE c = "a" -> 97  [] c = "d" -> 100 [] c = "e" -> 101 [] c = "f" -> 102
          [] c = "i" -> 105 [] c = "k" -> 107 [] c = "l" -> 108 [] c = "n" -> 110
          [] c = "o" -> 111 [] c = "r" -> 114 [] c = "s" -> 115 [] c = "t" -> 116
          [] c = "u" -> 117 [] c = "w" -> 119 [] c = "x" -> 120 [] c = "-" -> 45
          [] c = "/" -> 47]

encode_utf8(str) == [i \in DOMAIN str |-> Utf8[str[i]]]

\* bytes.decode('utf-8', errors='ignore') on single-byte characters: a byte
\* that starts no character is dropped
decode_utf8(bytes) ==
    LET kept == {i \in DOMAIN bytes : \E c \in DOMAIN Utf8 : Utf8[c] = bytes[i]}
    IN  [k \in 1..Cardinality(kept) |->
            LET p == CHOOSE q \in kept : Cardinality({j \in kept : j <= q}) = k
            IN  CHOOSE c \in DOMAIN Utf8 : Utf8[c] = bytes[p]]

\* '/'.join(uri_path)
RECURSIVE JoinSlash(_)
JoinSlash(segments) ==
    IF segments = <<>> THEN <<>>
    ELSE IF Len(segments) = 1 THEN segments[1]
         ELSE segments[1] \o <<"/">> \o JoinSlash(Tail(segments))

\* f"{code_class}.{code_detail:02d}"
DecimalDigit(n) == <<"0", "1", "2", "3", "4", "5", "6", "7", "8", "9">>[n + 1]

CodeString(code) ==
    <<DecimalDigit(code \div 32), ".", DecimalDigit((code % 32) \div 10), DecimalDigit((code % 32) % 10)>>

\* what parse_coap_packet gives: None, an exception, or the dict
NoPacket == [none |-> TRUE, raised |-> FALSE]

Raised == [none |-> FALSE, raised |-> TRUE]

\* the option loop of parse_coap_packet from a 0-based offset
RECURSIVE parse_options(_, _, _, _)
parse_options(data, offset, option_number, uri_path) ==
    IF offset >= Len(data)
    THEN [raised |-> FALSE, broke |-> FALSE, uri_path |-> uri_path, payload |-> <<>>]
    ELSE IF data[offset + 1] = 255
    THEN [raised |-> FALSE, broke |-> FALSE, uri_path |-> uri_path,
          payload |-> SubSeq(data, offset + 2, Len(data))]
    ELSE
      LET byte == data[offset + 1]
          d0 == (byte \div 16) % 16
          l0 == byte % 16
          o1 == offset + 1
          \* bytes the extended delta reads
          dn == IF d0 = 13 THEN 1 ELSE IF d0 = 14 THEN 2 ELSE 0
          o2 == o1 + dn
          option_delta == IF d0 = 13 THEN 13 + data[o1 + 1]
                          ELSE IF d0 = 14 THEN 269 + 256 * data[o1 + 1] + data[o1 + 2]
                          ELSE d0
          ln == IF l0 = 13 THEN 1 ELSE IF l0 = 14 THEN 2 ELSE 0
          o3 == o2 + ln
          option_length == IF l0 = 13 THEN 13 + data[o2 + 1]
                           ELSE IF l0 = 14 THEN 269 + 256 * data[o2 + 1] + data[o2 + 2]
                           ELSE l0
          number == option_number + option_delta
      IN  IF o2 > Len(data) \/ o3 > Len(data)
          THEN [raised |-> TRUE, broke |-> FALSE, uri_path |-> uri_path, payload |-> <<>>]
          ELSE IF o3 + option_length <= Len(data)
          THEN parse_options(data, o3 + option_length, number,
                             IF number = 11
                             THEN Append(uri_path, decode_utf8(SubSeq(data, o3 + 1, o3 + option_length)))
                             ELSE uri_path)
          \* the option value does not fit: break
          ELSE [raised |-> FALSE, broke |-> TRUE, uri_path |-> uri_path, payload |-> <<>>]

parse_coap_packet(data) ==
    IF Len(data) < 4 THEN NoPacket
    ELSE LET byte0 == data[1]
             token_length == byte0 % 16
             opts == parse_options(data, 4 + token_length, 0, <<>>)
         IN  IF opts.raised THEN Raised
             ELSE [none |-> FALSE, raised |-> FALSE,
                   version |-> (byte0 \div 64) % 4,
                   type |-> (byte0 \div 16) % 4,
                   code |-> CodeString(data[2]),
                   message_id |-> 256 * data[3] + data[4],
                   uri_path |-> JoinSlash(opts.uri_path),
                   payload |-> opts.payload,
                   token_length |-> token_length]

\* create_coap_post_packet with the payload directly after the option
create_coap_post_no_marker(uri_path, payload, message_id) ==
    <<80, 2, message_id \div 256, message_id % 256>>
        \o <<176 + Len(encode_utf8(uri_path))>> \o encode_utf8(uri_path) \o encode_utf8(payload)

\* create_coap_post_packet; message_id is int(time.time()) % 0xFFFF
create_coap_post_packet(uri_path, payload, message_id) ==
    <<80, 2, message_id \div 256, message_id % 256>>
        \o <<176 + Len(encode_utf8(uri_path))>> \o encode_utf8(uri_path)
        \o <<255>> \o encode_utf8(payload)

BlobLen == 512

UriPathLong == <<"n", "e", "t", "w", "o", "r", "k", "-", "i", "n", "f", "o", "s">>

UriPaths ==
    {<<"a", "u", "d", "i", "o">>, <<"l", "e", "d">>,
     <<"n", "e", "t", "w", "o", "r", "k", "-", "i", "n", "f", "o">>,
     <<"n", "e", "t", "w", "o", "r", "k", "-", "i", "n", "f", "o", "s">>}

Payloads ==
    {<<>>, <<"x">>,
     [i \in 1..BlobLen |-> <<"x", "n">>[(i % 2) + 1]]}

MessageIds == {0, 258, 65534}

\* a packet is built and parsed back
CoapRoundTrip ==
    \E uri_path \in UriPaths, payload \in Payloads, message_id \in MessageIds :
        /\ ops = 0
        /\ last_call' = Call("parse_coap_packet", None,
                             [uri_path |-> uri_path, payload |-> payload, message_id |-> message_id],
                             parse_coap_packet(create_coap_post_packet(uri_path, payload, message_id)))
        /\ ops' = ops + 1
        /\ UNCHANGED <<regvars, now, next_sweep, concvars, hvars, aggvars>>

\* address strings: a first group, "::", an interface identifier
FirstGroups == {<<"f", "d", "0", "0">>, <<"F", "D", "7", "8">>, <<"f", "e", "8", "0">>,
                <<"f", "e", "b", "f">>, <<"f", "e", "c", "0">>, <<"2", "0", "0", "1">>,
                <<"f", "f", "0", "3">>}

InterfaceIds ==
    {<<"f", "f", ":", "f", "e", "0", "0", ":", "c", "4", "0", "0">>,
     <<"0", ":", "f", "f", ":", "f", "e", "0", "0", ":", "f", "c", "0", "0">>,
     <<"1", ":", "f", "f", ":", "f", "e", "0", "0", ":", "c", "4", "0", "0">>,
     <<"f", "f", ":", "f", "e", "0", "1", ":", "c", "4", "0", "0">>,
     <<"1">>,
     <<"0", "3", "2", "3", ":", "4", "5", "6", "7", ":", "8", "9", "a", "b", ":",
       "c", "d", "e", "f">>}

AddressStrings == {g \o <<":", ":">> \o iid : g \in FirstGroups, iid \in InterfaceIds}

\* strings IPv6Address rejects
BadAddressStrings == {<<"f", "d", "0", "0">>, <<"f", "d", "0", "0", ":", ":", "g">>}

Classify ==
    \E addr \in AddressStrings \cup BadAddressStrings :
        /\ ops = 0
        /\ last_call' = Call("classify", None, addr,
                             [is_rloc |-> is_rloc_addr(addr), is_mleid |-> is_mleid(addr)])
        /\ ops' = ops + 1
        /\ UNCHANGED <<regvars, now, next_sweep, concvars, hvars, aggvars>>

\* packets cut short: every prefix of a POST to "led", and option headers
\* whose 13/14 extended delta or length bytes are missing or complete
Prefixes(data) == {SubSeq(data, 1, n) : n \in 0..Len(data)}

TruncatedPackets ==
    Prefixes(create_coap_post_packet(<<"l", "e", "d">>, <<"x">>, 258))
        \cup Prefixes(<<80, 2, 1, 2, 208, 0, 108, 255, 120>>)
        \cup Prefixes(<<80, 2, 1, 2, 224, 0, 0, 108, 255, 120>>)
        \cup Prefixes(<<80, 2, 1, 2, 189, 0>> \o encode_utf8(UriPathLong) \o <<255, 120>>)
        \cup Prefixes(<<80, 2, 1, 2, 190, 0, 0>>)
        \cup Prefixes(<<81, 2, 1, 2, 7, 179, 108, 101, 100>>)

\* parse_coap_packet on a packet that may be cut short; the argument records
\* whether the option walk ran past the end of the buffer
ParseTruncated ==
    \E data \in TruncatedPackets :
        /\ ops = 0
        /\ last_call' = Call("parse_truncated", None,
                             [data |-> data,
                              overrun |-> /\ Len(data) >= 4
                                          /\ LET opts == parse_options(data, 4 + (data[1] % 16), 0, <<>>)
                                             IN  opts.raised \/ opts.broke],
                             parse_coap_packet(data))
        /\ ops' = ops + 1
        /\ UNCHANGED <<regvars, now, next_sweep, concvars, hvars, aggvars>>

\* the pure address functions applied to their inputs
NextAddr ==
    \/ LinkLocal
    \/ Classify
    \/ CoapRoundTrip
    \/ ParseTruncated

SpecAddr == Init /\ [][NextAddr]_vars

\* the resolver over the aggregator's nodes
\* sessions that report scan results while border routers connect and leave
NextScan ==
    \/ AcceptConfigured
    \/ SendConnected
    \/ ReceiveScan
    \/ RxClose
    \/ Teardown
    \/ TxWorkerIdle

SpecScan == Init /\ [][NextScan]_vars

\* ------------------------------------------------------------------------
\* SpecMesh: a mesh of two routers that list each other as neighbors, behind
\* a BR that answers every scan_node command it is sent with one successful
\* scan_node_result
\* ------------------------------------------------------------------------
\* scan_node commands the walk may issue
MaxScans == 6

\* the network_info each node of the mesh reports, by the address scanned
Mesh ==
    LET a == ScanLinkLocal[ExtA]
        b == ScanLinkLocal[ExtB]
    IN  [t \in {a, b} |->
            IF t = a
            THEN [source_ipv6 |-> "fd78::a1", children |-> <<>>,
                  neighbors |-> <<[rloc16 |-> "0xc800", ext_addr |-> ExtB,
                                   is_child |-> FALSE]>>]
            ELSE [source_ipv6 |-> "fd78::ff", children |-> <<>>,
                  neighbors |-> <<[rloc16 |-> "c801", ext_addr |-> ExtA,
                                   is_child |-> FALSE]>>]]

\* the scan_node_result the BR sends for a scan_node frame it was sent
MeshResult(frame) ==
    [type |-> "scan_node_result", success |-> TRUE,
     source_ipv6 |-> Mesh[frame.target_ipv6].source_ipv6,
     node_name |-> frame.payload, request_id |-> frame.request_id,
     children |-> Mesh[frame.target_ipv6].children,
     neighbors |-> Mesh[frame.target_ipv6].neighbors]

\* the requests whose scan_node_result has been handled
Answered == {emitted[k].arg : k \in {j \in DOMAIN emitted : emitted[j].event = "scan_node_result"}}

\* the single scan that starts the walk: send_scan_node_command for one node
MeshStart ==
    \E br_id \in DOMAIN BrConfig :
        /\ next_id = 0
        /\ send_scan_node_ok(br_id)
        /\ next_id' = 1
        /\ send_scan_node_command(br_id, ScanLinkLocal[ExtA], "node_c801", 1)
        /\ last_call' = Call("send_scan_node_command", br_id, 1, TRUE)
        /\ UNCHANGED <<regvars, now, next_sweep, concvars, ops, aggvars, tablevars, ipv6_mapping,
                       sessions, ws_out, workers, emitted, rx_count>>

\* the BR answers a scan_node frame written to its socket, and the RX loop
\* hands the result to handle_scan_node_result
MeshAnswer ==
    \E ws \in DOMAIN sessions :
        \E k \in DOMAIN ws_out[ws] :
            LET frame == ws_out[ws][k]
            IN  /\ sessions[ws].pc = "rx"
                /\ frame.type = "scan_node"
                /\ frame.request_id \notin Answered
                /\ next_id + Len(discovered_nodes(MeshResult(frame))) <= MaxScans
                /\ handle_scan_node_result(sessions[ws].br_id, MeshResult(frame))
                /\ rx_count' = rx_count + 1
                /\ last_call' = Call("handle_scan_node_result", sessions[ws].br_id,
                                     MeshResult(frame), ws)
                /\ UNCHANGED <<now, next_sweep, concvars, ops, aggvars>>

NextMesh ==
    \/ AcceptConfigured
    \/ SendConnected
    \/ MeshStart
    \/ TxWorker
    \/ MeshAnswer

SpecMesh == Init /\ [][NextMesh]_vars

\* the credential store under concurrent callers
NextAuth ==
    \/ AddBrToConfig
    \/ VerifyToken

SpecAuth == Init /\ [][NextAuth]_vars

\* RX flows inside upsert_node and a thread that takes snapshots
NextConc ==
    \/ UpsertSteps
    \/ GetTopology

SpecConc == Init /\ [][NextConc]_vars

NextResolve ==
    \/ UpsertNodeResolve
    \/ Resolve

SpecResolve == Init /\ [][NextResolve]_vars

\* the aggregator of one reporting node, with the clock
NextRetention ==
    \/ UpsertNodeRecent
    \/ Clear
    \/ Tick
    \/ Sweep

SpecRetention == Init /\ [][NextRetention]_vars

\* ------------------------------------------------------------------------
\* Registry claims (checked under SpecReg)
\* ------------------------------------------------------------------------

\* C5: after register(B, s1, ...) followed by register(B, s2, ...), B's one
\* record holds s2 and is online, get_br_sid(B) is s2, the sid index has no
\* entry for s1 (unless s1 = s2) and maps s2 to B, and every node that
\* get_br_for_node resolves to B leads to the session handle s2.
C5_RegisterReplaces ==
    (last_call.op = "register_br" /\ last_call.arg.old_sid # None) =>
        LET B == last_call.br
            s1 == last_call.arg.old_sid
            s2 == last_call.arg.sid
        IN  /\ B \in DOMAIN border_routers
            /\ border_routers[B].sid = s2
            /\ border_routers[B].status = "online"
            /\ get_br_sid(B) = s2
            /\ (s1 # s2 => s1 \notin DOMAIN sid_to_br)
            /\ Get(sid_to_br, s2) = B
            /\ \A n \in NodeNames :
                  get_br_for_node(n) = B => get_br_sid(get_br_for_node(n)) = s2

\* B was registered with s1, then with s2, and a node resolves to B
C5_Witness ==
    /\ last_call.op = "register_br"
    /\ last_call.arg.old_sid = "s1"
    /\ last_call.arg.sid = "s2"
    /\ \E n \in NodeNames : get_br_for_node(n) = last_call.br

\* C6, the state part: a BR without a heartbeat for more than
\* heartbeat_timeout is not online; a BR whose status is still online has a
\* heartbeat no older than heartbeat_timeout plus one sweeper period; an
\* offline record carries disconnected_at <= now.
C6_State ==
    \A b \in DOMAIN border_routers :
        LET r == border_routers[b]
        IN  /\ (now - r.last_heartbeat > heartbeat_timeout => ~is_br_online(b))
            /\ (r.status = "online" =>
                    now - r.last_heartbeat <= heartbeat_timeout + SweepPeriod)
            /\ (r.status = "offline" =>
                    r.disconnected_at # NoneInt /\ r.disconnected_at <= now)

\* C6, the step part: no record is ever removed, and a pass of the sweeper
\* changes nothing of a BR whose last heartbeat is younger than
\* heartbeat_timeout.
C6_Step ==
    /\ DOMAIN border_routers \subseteq DOMAIN border_routers'
    /\ Sweep =>
         \A b \in DOMAIN border_routers :
            now - border_routers[b].last_heartbeat < heartbeat_timeout
                => border_routers'[b] = border_routers[b]

\* C6: heartbeat expiry is noticed within one sweeper period, and only then
C6_HeartbeatExpiry == [](C6_State) /\ [][C6_Step]_vars

\* the sweeper, and nothing else, has flipped the BR offline
C6_Witness ==
    /\ ops = 1
    /\ last_call.op = "sweep"
    /\ \E b \in DOMAIN border_routers :
          /\ border_routers[b].status = "offline"
          /\ border_routers[b].disconnected_at = now
          /\ now - border_routers[b].last_heartbeat = heartbeat_timeout + 1

\* C7: is_online(B) is status online and a heartbeat younger than
\* heartbeat_timeout, and every query that reports B online agrees with it.
C7_QueriesAgree ==
    \A b \in BrIds :
        /\ is_br_online(b) <=>
              (/\ b \in DOMAIN border_routers
               /\ border_routers[b].status = "online"
               /\ now - border_routers[b].last_heartbeat < heartbeat_timeout)
        /\ (get_br_sid(b) # None => is_br_online(b))
        /\ (b \in get_active_border_routers => is_br_online(b))
        /\ (b \in DOMAIN border_routers =>
                (get_all_brs_status[b] = "online" => is_br_online(b)))
        /\ get_statistics.online_border_routers
              = Cardinality({x \in BrIds : is_br_online(x)})

\* ------------------------------------------------------------------------
\* Session and TX worker claims (checked under Spec)
\* ------------------------------------------------------------------------
\* the request ids of the scan_node frames written to a socket, in order
ScanIds(out) ==
    LET scans == SelectSeq(out, LAMBDA f : f.type = "scan_node")
    IN  [k \in DOMAIN scans |-> scans[k].request_id]

\* the request ids put on the outbound queues of br_id, in order
EnqIds(br_id) ==
    LET es == SelectSeq(enq_log, LAMBDA e : e.br_id = br_id)
    IN  [k \in DOMAIN es |-> es[k].request_id]

\* the connections of br_id that passed authentication
AcceptedSessions(br_id) ==
    {ws \in DOMAIN sessions : sessions[ws].br_id = br_id /\ sessions[ws].pc # "rejected"}

\* C1: at every moment at most one session is live for a BR id: one open
\* socket and one running TX worker (a new session tears the prior one down
\* before it replaces the table entries).
C1_OneLiveSessionPerBr ==
    /\ \A a, b \in DOMAIN sessions :
          (WsOpen(a) /\ WsOpen(b) /\ sessions[a].br_id = sessions[b].br_id) => a = b
    /\ \A t, u \in DOMAIN workers :
          (Alive(t) /\ Alive(u) /\ workers[t].br_id = workers[u].br_id) => t = u

\* C2: a message accepted onto a BR's outbound queue is written at most once,
\* and while the session it was accepted for stays live it is either written
\* to a socket of that BR or still waiting (queued, or held by a TX worker).
C2_ExactlyOnceOrTornDown ==
    \A i \in DOMAIN enq_log :
        LET e == enq_log[i]
            copies(ws) == Len(SelectSeq(ScanIds(ws_out[ws]),
                                        LAMBDA id : id = e.request_id))
            written == \E ws \in DOMAIN sessions :
                          sessions[ws].br_id = e.br_id /\ copies(ws) = 1
            waiting == \/ \E q \in DOMAIN queues : \E k \in DOMAIN queues[q] :
                             queues[q][k].request_id = e.request_id
                       \/ \E t \in DOMAIN workers :
                             workers[t].pc = "send"
                                /\ workers[t].msg.request_id = e.request_id
        IN  /\ \A ws \in DOMAIN sessions : copies(ws) <= 1
            /\ \A a, b \in DOMAIN sessions : (copies(a) = 1 /\ copies(b) = 1) => a = b
            /\ (WsOpen(e.ws) => (written \/ waiting))

\* C3: for a BR whose session is never replaced, the socket receives the
\* queued messages in enqueue order: what has been written is a prefix of
\* what was enqueued, and all of it once the session is live and nothing
\* is waiting.
C3_FifoOrder ==
    \A ws \in DOMAIN sessions :
        LET br_id == sessions[ws].br_id
            sent == ScanIds(ws_out[ws])
            enq == EnqIds(br_id)
            idle == \A t \in DOMAIN workers :
                       workers[t].ws = ws =>
                          /\ workers[t].pc \in {"lookup", "get"}
                          /\ br_id \in DOMAIN message_queues
                          /\ queues[message_queues[br_id]] = <<>>
        IN  AcceptedSessions(br_id) = {ws} =>
               /\ Len(sent) <= Len(enq)
               /\ sent = SubSeq(enq, 1, Len(sent))
               /\ ((WsOpen(ws) /\ idle) => sent = enq)

\* two messages were queued for a BR with one session, and both arrived
C3_Witness ==
    \E ws \in DOMAIN sessions :
        /\ AcceptedSessions(sessions[ws].br_id) = {ws}
        /\ ScanIds(ws_out[ws]) = <<1, 2>>
        /\ WsOpen(ws)

\* C4: every running TX worker belongs to one session that teardown has not
\* yet released, is the thread the TX-worker table holds for its BR, and
\* reads the queue that was created with it.
C4_WorkerPairedWithLiveSession ==
    \A t \in DOMAIN workers :
        Alive(t) =>
            /\ sessions[workers[t].ws].pc # "closed"
            /\ workers[t].br_id \in DOMAIN tx_threads
            /\ tx_threads[workers[t].br_id] = t
            /\ (workers[t].pc \in {"get", "send"} => workers[t].q = t)

\* the credentials config/border_routers.json knows
ValidCredentials(br_id, auth_token) ==
    /\ br_id \in DOMAIN BrConfig
    /\ auth_token # ""
    /\ auth_token = BrConfig[br_id].auth_token

\* C8, the state part: a refused connection holds exactly one error frame,
\* no TX worker runs for it and the connection table does not point to it.
C8_State ==
    \A ws \in DOMAIN sessions :
        sessions[ws].pc = "rejected" =>
            /\ Len(ws_out[ws]) = 1
            /\ ws_out[ws][1].type = "error"
            /\ \A t \in DOMAIN workers : workers[t].ws # ws
            /\ \A b \in DOMAIN active_connections : active_connections[b] # ws

\* C8, the step part: a connection attempt with a missing br_id or
\* auth_token, or with a token that fails verification, is answered with the
\* error frame of its case and closed; the registry, the three tables, the
\* TX workers and the queues are as before.
C8_Step ==
    (last_call'.op = "handle_connection" /\ Len(sessions') = Len(sessions) + 1
       /\ ~ValidCredentials(last_call'.br, last_call'.arg)) =>
        /\ sessions'[Len(sessions')].pc = "rejected"
        /\ ws_out'[Len(sessions')] =
              <<ErrorFrame(IF last_call'.br = "" \/ last_call'.arg = ""
                           THEN "Missing br_id or auth_token"
                           ELSE "Authentication failed")>>
        /\ UNCHANGED <<regvars, tablevars, workers, queues>>

\* C8: a connection attempt without valid credentials only gets an error frame
C8_RejectedConnection == [](C8_State) /\ [][C8_Step]_vars

\* a connection for a BR id with a live session was refused for its token
C8_Witness ==
    /\ last_call.op = "handle_connection"
    /\ sessions[last_call.ret].pc = "rejected"
    /\ ws_out[last_call.ret] = <<ErrorFrame("Authentication failed")>>
    /\ last_call.br \in DOMAIN active_connections
    /\ WsOpen(active_connections[last_call.br])

\* ------------------------------------------------------------------------
\* Inbound frame and command claims (checked under SpecRx)
\* ------------------------------------------------------------------------
\* the frame is not JSON, not an object with a type, of an unknown type, or
\* lacks a field its handler requires
Malformed(m) ==
    \/ m.json # "object"
    \/ "type" \notin DOMAIN m.data
    \/ m.data.type \notin {"heartbeat", "node_event", "node_discovered",
                           "command_response", "topology_update"}
    \/ m.data.type = "node_event"
          /\ ("source_ipv6" \notin DOMAIN m.data \/ "event_type" \notin DOMAIN m.data)
    \/ m.data.type = "node_discovered" /\ "source_ipv6" \notin DOMAIN m.data
    \/ m.data.type = "command_response" /\ "request_id" \notin DOMAIN m.data

\* C9, the step: a malformed frame is discarded; the session stays in its RX
\* loop, and its connection-table entry, queue, TX worker and the registry
\* statuses are as before.
C9_Step ==
    (last_call'.op = "handle_message" /\ rx_count' = rx_count + 1
       /\ Malformed(InFrames[last_call'.arg])) =>
        /\ sessions' = sessions
        /\ sessions'[last_call'.ret].pc = "rx"
        /\ UNCHANGED <<tablevars, workers, queues, ws_out>>
        /\ DOMAIN border_routers' = DOMAIN border_routers
        /\ \A b \in DOMAIN border_routers :
              border_routers'[b].status = border_routers[b].status

\* C9: malformed inbound frames never tear the session down
C9_MalformedFrameDiscarded == [][C9_Step]_vars

\* two malformed frames were read, and the session is registered and goes on
C9_Witness ==
    /\ last_call.op = "handle_message"
    /\ Malformed(InFrames[last_call.arg])
    /\ rx_count = 2
    /\ sessions[last_call.ret].pc = "rx"
    /\ last_call.br \in DOMAIN active_connections
    /\ active_connections[last_call.br] = last_call.ret
    /\ last_call.br \in DOMAIN border_routers
    /\ border_routers[last_call.br].status = "online"

\* C10: when BR B has a live authenticated session, node n has an address A
\* in the inventory and n is in B's node list, send_command_to_node(n, kind,
\* payload) returns True and the last frame on B's socket is
\* send_coap(A, kind, payload) with the request id just drawn.
C10_CommandDelivered ==
    last_call.op = "send_command_to_node" =>
        \A B \in DOMAIN border_routers :
            LET n == last_call.arg
            IN  (/\ n \in DOMAIN AddrConfig
                 /\ n \in Range(border_routers[B].nodes)
                 /\ border_routers[B].status = "online"
                 /\ B \in DOMAIN active_connections
                 /\ sessions[active_connections[B]].br_id = B
                 /\ sessions[active_connections[B]].pc = "rx") =>
                    /\ last_call.ret = TRUE
                    /\ ws_out[active_connections[B]] # <<>>
                    /\ ws_out[active_connections[B]][Len(ws_out[active_connections[B]])]
                          = CoapFrame(next_id, AddrConfig[n], "audio", "play:341")

\* C11: a send_command_to_node that reports success has put its send_coap
\* frame on the owning BR's outbound queue, behind what was queued before,
\* and has not written it to the socket itself.
C11_EnqueueOnly ==
    (last_call.op = "send_command_to_node" /\ last_call.ret = TRUE) =>
        LET br_id == last_call.br
            frame == CoapFrame(next_id, AddrConfig[last_call.arg], "audio", "play:341")
        IN  /\ br_id \in DOMAIN message_queues
            /\ queues[message_queues[br_id]] # <<>>
            /\ queues[message_queues[br_id]][Len(queues[message_queues[br_id]])] = frame
            /\ \A ws \in DOMAIN sessions : frame \notin Range(ws_out[ws])

\* ------------------------------------------------------------------------
\* Claims about live sessions under the clock (checked under SpecLive)
\* ------------------------------------------------------------------------
\* C12: send_command_to_node reports success only when the node name has an
\* address, an owning BR is found and that BR is online (registry status
\* online and heartbeat not expired).
C12_OnlyToOnlineBr ==
    (last_call.op = "send_command_to_node" /\ last_call.ret = TRUE) =>
        /\ resolve_node_name_to_ipv6(last_call.arg) # None
        /\ last_call.br # None
        /\ is_br_online(last_call.br)

\* ------------------------------------------------------------------------
\* Teardown claims (checked under SpecTeardown)
\* ------------------------------------------------------------------------
\* C13: running teardown a second time for a session, the only one of its BR,
\* changes nothing: no sentinel is queued, no table entry is removed and the
\* registry (records with status, disconnected_at and counters, sid index,
\* node index) is as the first teardown left it.
C13_Step ==
    (last_call'.op = "teardown_again" /\ last_call' # last_call
       /\ AcceptedSessions(last_call'.br) = {last_call'.arg}) =>
        UNCHANGED <<regvars, tablevars, queues, workers, sessions>>

C13_TeardownIdempotent == [][C13_Step]_vars

\* ------------------------------------------------------------------------
\* Aggregator claims (checked under SpecAgg)
\* ------------------------------------------------------------------------
\* C18: upsert_node accepts every event that carries a partition id (any
\* value, 0 included) and an ext_addr, and rejects exactly the events lacking
\* one of them: after the call the node table has a record under the event's
\* key exactly when the event carried both.
C18_AcceptsEveryKeyedEvent ==
    last_call.op = "upsert_node" =>
        LET event == last_call.arg
        IN  (<<event.partition, Lower(event.ext_addr)>> \in DOMAIN agg_nodes)
                <=> (event.partition # NoneInt /\ event.ext_addr # None)

\* the keys reported so far and what was observed for one key
ReportedKeys == {<<r.partition, r.ext_addr>> : r \in reported}

ObservedFor(key) == {r \in reported : <<r.partition, r.ext_addr>> = key}

\* C14: the node table holds one record for each reported (partition,
\* ext_addr) and no other, and the record's rloc16s, mleids, roles and br_ids
\* are the unions of the values observed for that key.
C14_OneRecordPerReportedKey ==
    /\ DOMAIN agg_nodes = ReportedKeys
    /\ \A key \in ReportedKeys :
         /\ agg_nodes[key].rloc16s = UNION {r.rloc16s : r \in ObservedFor(key)}
         /\ agg_nodes[key].mleids = UNION {r.mleids : r \in ObservedFor(key)}
         /\ agg_nodes[key].roles = UNION {r.roles : r \in ObservedFor(key)}
         /\ agg_nodes[key].br_ids = {r.br_id : r \in ObservedFor(key)}

\* the scalar metrics of a router link and of a child link
LinkMetrics == {"avg_rssi", "last_rssi", "lqi", "margin_db", "frame_err", "msg_err"}

ChildIntMetrics == {"avg_rssi", "last_rssi", "lqi", "version"}

\* C16: an upsert leaves the stored value of every field the event does not
\* carry: the set fields of a node record only grow, and a scalar metric of
\* an existing link record is overwritten only when the event carries a
\* sample of it.
C16_Step ==
    /\ (last_call'.op \in {"upsert_node", "upsert_child_link"} /\ ops' = ops + 1) =>
         \A key \in DOMAIN agg_nodes :
             /\ key \in DOMAIN agg_nodes'
             /\ agg_nodes[key].rloc16s \subseteq agg_nodes'[key].rloc16s
             /\ agg_nodes[key].mleids \subseteq agg_nodes'[key].mleids
             /\ agg_nodes[key].roles \subseteq agg_nodes'[key].roles
             /\ agg_nodes[key].br_ids \subseteq agg_nodes'[key].br_ids
    /\ (last_call'.op = "upsert_router_link" /\ ops' = ops + 1 /\ last_call'.ret) =>
         LET event == last_call'.arg
             key == SortedPair(Lower(event.a_rloc16), Lower(event.b_rloc16))
         IN  key \in DOMAIN router_links =>
                 \A f \in LinkMetrics :
                     router_links'[key][f] =
                         IF event[f] # NoneInt THEN event[f] ELSE router_links[key][f]
    /\ (last_call'.op = "upsert_child_link" /\ ops' = ops + 1 /\ last_call'.ret) =>
         LET event == last_call'.arg
             key == <<Lower(event.parent_rloc16), Lower(event.child_rloc16)>>
         IN  key \in DOMAIN child_links =>
                 /\ \A f \in ChildIntMetrics :
                        child_links'[key][f] =
                            IF event[f] # NoneInt THEN event[f] ELSE child_links[key][f]
                 /\ child_links'[key].mode =
                        IF event.mode # None THEN event.mode ELSE child_links[key].mode

C16_AbsentFieldKeepsValue == [][C16_Step]_vars

\* C17: the record a node report updates is the one under the report's
\* (partition, ext_addr): after the report that record exists (created when
\* the key is new, as for a known ext_addr under another partition), no other
\* record is created and every other record is as it was.
C17_Step ==
    (last_call'.op = "upsert_node" /\ ops' = ops + 1
       /\ last_call'.arg.partition # NoneInt /\ last_call'.arg.ext_addr # None) =>
        LET event == last_call'.arg
            key == <<event.partition, Lower(event.ext_addr)>>
        IN  /\ DOMAIN agg_nodes' = DOMAIN agg_nodes \cup {key}
            /\ \A other \in DOMAIN agg_nodes \ {key} : agg_nodes'[other] = agg_nodes[other]

C17_KeyedByPartitionAndExtAddr == [][C17_Step]_vars

\* ------------------------------------------------------------------------
\* Retention claim (checked under SpecRetention)
\* ------------------------------------------------------------------------
\* the retention windows considered, in clock ticks
RetentionWindows == 1 .. (MaxTime - 1)

\* C15: for the retention window (whichever of the windows considered it is)
\* a node record is in the node table exactly when some BR reported that node
\* within the window: a reported node is present, and a node last reported
\* longer ago than the window is no longer present.
C15_PresentIffRecentlyReported ==
    \E window \in RetentionWindows :
        \A key \in DOMAIN agg_nodes \cup ReportedKeys :
            key \in DOMAIN agg_nodes
                <=> \E r \in ObservedFor(key) : now - r.at <= window

\* ------------------------------------------------------------------------
\* Router-link claim (checked under SpecAgg)
\* ------------------------------------------------------------------------
\* the unordered pair and the partition a router-link entry is stored under:
\* entries of the link table whose key is an ordering of the pair
EntriesOf(pair) == {key \in DOMAIN router_links : {key[1], key[2]} = pair}

\* C19: router links are kept per unordered rloc16 pair within a partition:
\* a pair never has two entries, and the sample kept for a pair of one
\* partition is the latest sample upserted for that pair in that partition,
\* whichever order the two rloc16s came in, so that samples of the same pair
\* in different partitions do not overwrite each other.
C19_KeyedByPairWithinPartition ==
    \A pk \in DOMAIN link_latest :
        /\ Cardinality(EntriesOf(pk[2])) = 1
        /\ \E key \in EntriesOf(pk[2]) :
               /\ router_links[key].avg_rssi = link_latest[pk].avg_rssi
               /\ router_links[key].lqi = link_latest[pk].lqi

\* ------------------------------------------------------------------------
\* Heartbeat claim (checked under SpecRx)
\* ------------------------------------------------------------------------
HeartbeatFrames ==
    {i \in DOMAIN InFrames :
        /\ InFrames[i].json = "object"
        /\ "type" \in DOMAIN InFrames[i].data
        /\ InFrames[i].data.type = "heartbeat"}

\* C20: every heartbeat read on a BR session leaves the BR's registry record
\* with last_heartbeat refreshed, heartbeat_count one higher and status
\* online, and writes exactly one heartbeat_ack to the session's socket,
\* whether or not the BR was in the connection table when the heartbeat came.
C20_Step ==
    (last_call'.op = "handle_message" /\ rx_count' = rx_count + 1
       /\ last_call'.arg \in HeartbeatFrames) =>
        LET br_id == last_call'.br
            ws == last_call'.ret
            before == IF br_id \in DOMAIN border_routers
                      THEN border_routers[br_id].heartbeat_count ELSE 0
        IN  /\ br_id \in DOMAIN border_routers'
            /\ border_routers'[br_id].last_heartbeat = now
            /\ border_routers'[br_id].heartbeat_count = before + 1
            /\ border_routers'[br_id].status = "online"
            /\ ws_out'[ws] = Append(ws_out[ws], HeartbeatAck)

C20_HeartbeatProcessed == [][C20_Step]_vars

\* ------------------------------------------------------------------------
\* Node index claims (checked under SpecReg)
\* ------------------------------------------------------------------------
\* C21: a node name resolves only to an online BR whose current declared
\* node list holds the name; a name that was only in a replaced list no
\* longer resolves to that BR.
C21_LookupMatchesDeclaration ==
    \A n \in NodeNames :
        LET br_id == get_br_for_node(n)
        IN  br_id # None =>
                /\ is_br_online(br_id)
                /\ n \in Range(border_routers[br_id].nodes)

\* C22: unregister_br of a known BR marks its record offline with
\* disconnected_at and changes nothing else in it (counters kept), removes
\* from the node index exactly the entries of its declared nodes that point
\* to it, and leaves every other record and every other index entry as it
\* was; for an unknown BR it changes nothing and returns False.
C22_Step ==
    (last_call'.op = "unregister_br" /\ ops' = ops + 1) =>
        LET br_id == last_call'.br
            own == {n \in DOMAIN node_to_br :
                       n \in Range(border_routers[br_id].nodes) /\ node_to_br[n] = br_id}
        IN  IF br_id \in DOMAIN border_routers
            THEN /\ last_call'.ret = TRUE
                 /\ DOMAIN border_routers' = DOMAIN border_routers
                 /\ border_routers'[br_id] =
                        [border_routers[br_id] EXCEPT !.status = "offline",
                                                      !.disconnected_at = now]
                 /\ \A other \in DOMAIN border_routers \ {br_id} :
                        border_routers'[other] = border_routers[other]
                 /\ DOMAIN node_to_br' = DOMAIN node_to_br \ own
                 /\ \A n \in DOMAIN node_to_br' : node_to_br'[n] = node_to_br[n]
            ELSE /\ last_call'.ret = FALSE
                 /\ UNCHANGED regvars

C22_UnregisterFrame == [][C22_Step]_vars

\* an unregister_br that removed an index entry of the BR and kept the entry
\* of a declared node that another BR owns
C22_Witness ==
    /\ last_call.op = "unregister_br"
    /\ last_call.ret = TRUE
    /\ border_routers[last_call.br].status = "offline"
    /\ border_routers[last_call.br].disconnected_at = now
    /\ \E n \in Range(border_routers[last_call.br].nodes) : n \notin DOMAIN node_to_br
    /\ \E n \in Range(border_routers[last_call.br].nodes) :
           n \in DOMAIN node_to_br /\ node_to_br[n] # last_call.br

\* ------------------------------------------------------------------------
\* Node events (checked under SpecRx)
\* ------------------------------------------------------------------------
\* the node_event frames that carry source_ipv6 and event_type
NodeEventFrames ==
    {i \in DOMAIN InFrames :
        /\ InFrames[i].json = "object"
        /\ "type" \in DOMAIN InFrames[i].data
        /\ InFrames[i].data.type = "node_event"
        /\ "source_ipv6" \in DOMAIN InFrames[i].data
        /\ "event_type" \in DOMAIN InFrames[i].data}

\* how many broadcasts of one kind about one address a log holds
Broadcasts(log, event, ipv6) ==
    Cardinality({k \in DOMAIN log : log[k].event = event /\ log[k].arg = ipv6})

\* C23: a node_event broadcasts node_update (and asks for a topology scan)
\* exactly once when its source_ipv6 was in no earlier message and not at all
\* when a node_event or node_discovered of that address came before; no
\* address ever has two node_update broadcasts.
C23_Step ==
    (last_call'.op = "handle_message" /\ rx_count' = rx_count + 1
       /\ last_call'.arg \in NodeEventFrames) =>
        LET source_ipv6 == InFrames[last_call'.arg].data.source_ipv6
            seen == Broadcasts(emitted, "node_update", source_ipv6)
                      + Broadcasts(emitted, "node_discovered", source_ipv6) > 0
            refreshes(log) == Cardinality({k \in DOMAIN log :
                                              log[k].event = "topology_refresh"})
        IN  /\ Broadcasts(emitted', "node_update", source_ipv6)
                 = Broadcasts(emitted, "node_update", source_ipv6)
                     + (IF seen THEN 0 ELSE 1)
            /\ refreshes(emitted') = refreshes(emitted) + (IF seen THEN 0 ELSE 1)
            /\ Broadcasts(emitted', "node_update", source_ipv6) <= 1

BroadcastName(ipv6) ==
    IF resolve_ipv6_to_node_name(ipv6) = None
    THEN unknown_name(ipv6) ELSE resolve_ipv6_to_node_name(ipv6)

\* C23 as stated: the first node_event of an address broadcasts node_update
\* once, whatever other messages came before it, and a later node_event of
\* the address broadcasts none.
C23_FirstEventStep ==
    (last_call'.op = "handle_message" /\ rx_count' = rx_count + 1
       /\ last_call'.arg \in NodeEventFrames) =>
        LET source_ipv6 == InFrames[last_call'.arg].data.source_ipv6
            first == \A k \in DOMAIN emitted :
                         ~(emitted[k].event = "node_event"
                             /\ emitted[k].node = BroadcastName(source_ipv6))
        IN  Broadcasts(emitted', "node_update", source_ipv6)
                = Broadcasts(emitted, "node_update", source_ipv6)
                    + (IF first THEN 1 ELSE 0)

C24_BusinessNameOrNone ==
    last_call.op = "resolve_ipv6_to_node_name" =>
        LET ipv6 == last_call.arg
            name == last_call.ret
            rloc16 == extract_rloc16_from_rloc_ipv6(ipv6)
            holders == {k \in DOMAIN agg_nodes :
                           \/ rloc16 # None /\ rloc16 \in agg_nodes[k].rloc16s
                           \/ Lower(ipv6) \in agg_nodes[k].mleids}
            via_topology == UNION {UNION {ConfigNames(m) : m \in agg_nodes[k].mleids} :
                                      k \in holders}
        IN  /\ name \in DOMAIN AddrConfig \cup {None}
            /\ ConfigNames(ipv6) # {} => name \in ConfigNames(ipv6)
            /\ (ConfigNames(ipv6) = {} /\ via_topology # {}) => name \in via_topology
            /\ (ConfigNames(ipv6) = {} /\ via_topology = {}) => name = None

\* ------------------------------------------------------------------------
\* Address functions (checked under SpecAddr)
\* ------------------------------------------------------------------------
\* the hex digits of a string without its colons, and whether they are
\* the 16 digits of an EUI-64
Digits(s) == SelectSeq(s, LAMBDA c : c # ":")

IsEui64(s) == Len(Digits(s)) = 16 /\ \A i \in 1..16 : IsHexChar(LowerChar(Digits(s)[i]))

\* byte i (0..7) of an EUI-64 string
Eui64Byte(s, i) ==
    16 * HexVal(LowerChar(Digits(s)[2 * i + 1])) + HexVal(LowerChar(Digits(s)[2 * i + 2]))

\* C28: for a 16-hex-digit EUI-64, with or without colons, the result is an
\* fe80::/64 address whose lower 64 bits are the EUI-64 with bit 1 of byte 0
\* flipped and nothing else changed (flipping the bit again gives the EUI-64
\* back); for any other input the result is None.
C28_LinkLocalFlipsUlBit ==
    last_call.op = "calculate_linklocal_from_extaddr" =>
        LET ext_addr == last_call.arg
            ll_addr == last_call.ret
        IN  IF IsEui64(ext_addr)
            THEN LET groups == ParseIPv6(ll_addr)
                     iid == [i \in 0..7 |-> IF i % 2 = 0 THEN groups[5 + (i \div 2)] \div 256
                                            ELSE groups[5 + (i \div 2)] % 256]
                 IN  /\ Len(groups) = 8
                     /\ SubSeq(groups, 1, 4) = <<65152, 0, 0, 0>>
                     /\ iid[0] # Eui64Byte(ext_addr, 0)
                     /\ Xor02(iid[0]) = Eui64Byte(ext_addr, 0)
                     /\ (iid[0] - Eui64Byte(ext_addr, 0)) \in {2, 0 - 2}
                     /\ \A i \in 1..7 : iid[i] = Eui64Byte(ext_addr, i)
            ELSE ll_addr = NoAddr

\* a colon-separated upper-case EUI-64 whose U/L bit was set and is cleared
C28_Witness ==
    /\ last_call.op = "calculate_linklocal_from_extaddr"
    /\ Len(last_call.arg) = 23
    /\ last_call.arg[1] = "F"
    /\ last_call.arg[2] = "f"
    /\ SubSeq(last_call.ret, 1, 8) = <<"f", "e", "8", "0", ":", ":", "f", "d">>

\* C26: every well-formed address is in exactly one of the classes RLOC/ALOC,
\* link-local, ML-EID and other: none is both RLOC/ALOC and link-local or
\* ML-EID, and none is left without a class.
C26_OneClassPerAddress ==
    (last_call.op = "classify" /\ WellFormed(last_call.arg)) =>
        LET addr == last_call.arg
            other == ~last_call.ret.is_rloc /\ ~is_linklocal(addr) /\ ~last_call.ret.is_mleid
        IN  Cardinality({c \in {"rloc", "linklocal", "mleid", "other"} :
                            \/ c = "rloc" /\ last_call.ret.is_rloc
                            \/ c = "linklocal" /\ is_linklocal(addr)
                            \/ c = "mleid" /\ last_call.ret.is_mleid
                            \/ c = "other" /\ other}) = 1

\* C27: for uri_path in {audio, led, network-info} and a payload that is
\* empty, "x" or a 512-byte blob, parsing the packet create_coap_post_packet
\* built gives the same uri_path and payload, with version 1, type NON (1),
\* code 0.02 and token length 0.  The payload comes back as the bytes of the
\* str that was given.
ClaimUriPaths == {u \in UriPaths : Len(u) <= 12}

C27_CodecRoundTrip ==
    (last_call.op = "parse_coap_packet" /\ last_call.arg.uri_path \in ClaimUriPaths) =>
        /\ ~last_call.ret.none /\ ~last_call.ret.raised
        /\ last_call.ret.uri_path = last_call.arg.uri_path
        /\ last_call.ret.payload = encode_utf8(last_call.arg.payload)
        /\ last_call.ret.version = 1
        /\ last_call.ret.type = 1
        /\ last_call.ret.code = <<"0", ".", "0", "2">>
        /\ last_call.ret.token_length = 0

\* the 512-byte payload under the longest path of the claim came back whole
C27_Witness ==
    /\ last_call.op = "parse_coap_packet"
    /\ Len(last_call.arg.uri_path) = 12
    /\ ~last_call.ret.none /\ ~last_call.ret.raised
    /\ Len(last_call.ret.payload) = BlobLen
    /\ last_call.ret.uri_path = last_call.arg.uri_path

\* the configurations some set of completed additions leaves
WithAdded(ts) ==
    [b \in DOMAIN StoredConfig \cup {NewBrs[t].br_id : t \in ts} |->
        IF b \in DOMAIN StoredConfig THEN StoredConfig[b]
        ELSE [auth_token |-> NewBrs[CHOOSE t \in ts : NewBrs[t].br_id = b].auth_token]]

\* C29: two concurrent add_br_to_config calls for different border routers
\* both take effect (once both returned, the file holds both entries), and
\* a concurrent verify_br_token works on the old or on a new configuration,
\* never on anything else.
C29_WritesSerialised ==
    /\ (\A t \in AddThreads : adders[t].pc = "done") =>
           /\ config_file.complete
           /\ config_file.border_routers = WithAdded(AddThreads)
    /\ last_call.op = "verify_br_token" =>
           \E ts \in SUBSET AddThreads : last_call.ret.config = WithAdded(ts)

\* C30: a snapshot taken by get_topology while RX flows of other sessions
\* perform upserts never holds a partially applied upsert: no node record
\* of the snapshot has an empty br_ids.
C30_SnapshotSeesWholeUpserts ==
    last_call.op = "get_topology" => \A node \in last_call.ret : node.br_ids # {}

\* ------------------------------------------------------------------------
\* Scan result claim (checked under SpecScan)
\* ------------------------------------------------------------------------
\* the reported children, and the reported neighbors not flagged is_child,
\* that carry a valid EUI-64
ScanTargets(data) ==
    SelectSeq(data.children, LAMBDA e : IsEui64(e.ext_addr))
        \o SelectSeq(data.neighbors, LAMBDA e : ~e.is_child /\ IsEui64(e.ext_addr))

\* C25: a scan_node_result with success = true from border router B puts on
\* B's outbound queue exactly one scan_node command, with a fresh request id
\* and the link-local address of the EUI-64 as target, for each reported
\* child and each reported neighbor not flagged is_child that carries a valid
\* EUI-64; with success = false nothing is enqueued and nothing broadcast.
C25_Step ==
    (last_call'.op = "handle_scan_node_result" /\ rx_count' = rx_count + 1) =>
        LET data == last_call'.arg
            B == last_call'.br
            targets == ScanTargets(data)
        IN  IF ~data.success
            THEN queues' = queues /\ enq_log' = enq_log /\ emitted' = emitted
            ELSE IF targets = <<>> THEN queues' = queues
            ELSE /\ B \in DOMAIN message_queues
                 /\ LET q == message_queues[B]
                        added == SubSeq(queues'[q], Len(queues[q]) + 1, Len(queues'[q]))
                    IN  /\ SubSeq(queues'[q], 1, Len(queues[q])) = queues[q]
                        /\ Len(added) = Len(targets)
                        /\ \A k \in DOMAIN added :
                              /\ added[k].type = "scan_node"
                              /\ added[k].request_id > next_id
                              /\ added[k].target_ipv6 =
                                   calculate_linklocal_from_extaddr(targets[k].ext_addr)
                              /\ \A j \in DOMAIN added : j # k =>
                                    added[j].request_id # added[k].request_id
                        /\ \A o \in DOMAIN queues : o # q => queues'[o] = queues[o]

C25_ScanCommandsPerReportedNode == [][C25_Step]_vars

\* ------------------------------------------------------------------------
\* TX worker exit (checked under Spec)
\* ------------------------------------------------------------------------
\* C31: a write failure does not stop the TX worker, which goes on to the
\* next queued message, and the worker exits only by dequeuing the shutdown
\* sentinel, so that what was queued before the sentinel has been attempted.
C31_Step ==
    /\ (last_call'.op = "tx_send" /\ workers' # workers) =>
           workers'[last_call'.arg].pc = "lookup"
    /\ \A t \in DOMAIN workers :
           (workers[t].pc # "dead" /\ workers'[t].pc = "dead") =>
               /\ workers[t].pc = "get"
               /\ Head(queues[workers[t].q]) = Sentinel

C31_ExitsOnlyOnSentinel == [][C31_Step]_vars


\* decoding packets cut short (checked under SpecAddr)
\* C32: parse_coap_packet of a packet of fewer than 4 bytes, or of one whose
\* option walk runs past the end of the buffer, gives a decode error: neither
\* an exception nor a result dict.
C32_TruncatedIsDecodeError ==
    (last_call.op = "parse_truncated"
        /\ (Len(last_call.arg.data) < 4 \/ last_call.arg.overrun)) =>
        last_call.ret = NoPacket


\* ------------------------------------------------------------------------
\* Credential check (checked under SpecAuth)
\* ------------------------------------------------------------------------
\* C33: verify_br_token(br_id, token) is true exactly when br_id is in the
\* credential configuration with a non-empty auth_token equal to token (so
\* false for an empty br_id or token, an unknown br_id, a mismatching
\* token); the configuration is the file whenever no add_br_to_config is
\* under way; the call changes neither the registry nor the gateway state.
C33_Step ==
    VerifyToken =>
        LET br_id == last_call'.br
            token == last_call'.arg
            config == last_call'.ret.config
        IN  /\ last_call'.ret.valid <=>
                   /\ br_id \in DOMAIN config
                   /\ config[br_id].auth_token # ""
                   /\ config[br_id].auth_token = token
            /\ (br_id = "" \/ token = "") => ~last_call'.ret.valid
            /\ (\A t \in AddThreads : adders[t].pc \in {"idle", "done"}) =>
                   config = config_file.border_routers
            /\ UNCHANGED <<regvars, gwvars>>

C33_VerifyMatchesConfiguration == [][C33_Step]_vars

\* the token of an added border router was accepted once both additions returned
C33_Witness ==
    /\ last_call.op = "verify_br_token"
    /\ last_call.br = "BR3"
    /\ last_call.arg = "T3"
    /\ last_call.ret.valid
    /\ \A t \in AddThreads : adders[t].pc = "done"


\* ------------------------------------------------------------------------
\* Node event fan-out and the dynamic mapping (checked under SpecRx)
\* ------------------------------------------------------------------------
\* the node_event broadcasts of a log
NodeEventBroadcasts(log) == SelectSeq(log, LAMBDA e : e.event = "node_event")

\* C34: a node_event that carries source_ipv6 and event_type is broadcast
\* exactly once as node_event, under a non-empty node name (the resolved
\* name, or unknown-<suffix>), and ipv6_mapping[source_ipv6] then holds that
\* name, the reporting BR and the time, so the latest reporter is stored.
C34_Step ==
    (last_call'.op = "handle_message" /\ rx_count' = rx_count + 1
       /\ last_call'.arg \in NodeEventFrames) =>
        LET data == InFrames[last_call'.arg].data
            br_id == last_call'.br
            before == NodeEventBroadcasts(emitted)
            after == NodeEventBroadcasts(emitted')
            sent == after[Len(after)]
        IN  /\ Len(after) = Len(before) + 1
            /\ SubSeq(after, 1, Len(before)) = before
            /\ sent.node \notin {None, ""}
            /\ sent.node = BroadcastName(data.source_ipv6)
            /\ sent.br_id = br_id
            /\ sent.arg = data.event_type
            /\ data.source_ipv6 \in DOMAIN ipv6_mapping'
            /\ ipv6_mapping'[data.source_ipv6] =
                   [node_name |-> sent.node, br_id |-> br_id, last_seen |-> now]

C35_Step ==
    LET ws == last_call'.arg
        br_id == last_call'.br
    IN  (/\ last_call'.op \in {"rx_close", "teardown"}
         /\ ws \in DOMAIN sessions
         /\ sessions'[ws].pc # sessions[ws].pc
         /\ br_id \in DOMAIN active_connections
         /\ active_connections[br_id] # ws
         /\ WsOpen(active_connections[br_id])) =>
            /\ br_id \in DOMAIN message_queues =>
                   queues'[message_queues[br_id]] = queues[message_queues[br_id]]
            /\ UNCHANGED tablevars
            /\ br_id \in DOMAIN border_routers =>
                   /\ br_id \in DOMAIN border_routers'
                   /\ border_routers'[br_id].status = border_routers[br_id].status

C35_OldTeardownSparesNewSession == [][C35_Step]_vars


\* ------------------------------------------------------------------------
\* Writers of one socket (checked under Spec)
\* ------------------------------------------------------------------------
\* the TX workers that have dequeued a message and are in ws.send on a socket
InWsSend(ws) == {t \in DOMAIN workers : workers[t].pc = "send" /\ workers[t].ws = ws}

\* C36: no frame is written to a BR socket while another thread is in
\* ws.send on that socket: whenever a step writes a frame to a socket, no TX
\* worker other than the one taking the step is inside ws.send on it.
C36_Step ==
    \A ws \in DOMAIN ws_out :
        ws_out'[ws] # ws_out[ws] =>
            \A t \in InWsSend(ws) : workers'[t].pc # "send"

C36_OneWriterPerSocket == [][C36_Step]_vars


\* ------------------------------------------------------------------------
\* The neighbor walk (checked under SpecMesh)
\* ------------------------------------------------------------------------
\* the scan_node commands for one address that were written to a BR
ScansWritten(target) ==
    Cardinality({p \in (DOMAIN ws_out) \X (1..(MaxScans + 1)) :
                    /\ p[2] \in DOMAIN ws_out[p[1]]
                    /\ ws_out[p[1]][p[2]].type = "scan_node"
                    /\ ws_out[p[1]][p[2]].target_ipv6 = target})

\* C37: the walk a single scan starts stops: no node of the mesh is scanned
\* more often than once for the scan that started the walk or for each
\* router that lists it, which is at most once per node of the mesh.
C37_EachNodeScannedBoundedly ==
    \A target \in DOMAIN Mesh : ScansWritten(target) <= Cardinality(DOMAIN Mesh)


\* ------------------------------------------------------------------------
\* Node lookup against the declarations (checked under SpecReg)
\* ------------------------------------------------------------------------
\* C38: whenever a BR is online and declares a node, get_br_for_node of that
\* node gives an online BR that declares the node; this after any sequence
\* of register, unregister, heartbeat, node list update and sweeper steps.
C38_DeclaredNodeHasOnlineBr ==
    \A br_id \in DOMAIN border_routers :
        \A node_name \in Range(border_routers[br_id].nodes) :
            is_br_online(br_id) =>
                LET found == get_br_for_node(node_name)
                IN  /\ found # None
                    /\ is_br_online(found)
                    /\ node_name \in Range(border_routers[found].nodes)


\* ------------------------------------------------------------------------
\* The first frame of a session (checked under Spec)
\* ------------------------------------------------------------------------
\* C39: on an accepted session nothing is written to the socket before the
\* connected frame: whatever the socket has been sent starts with it.
C39_ConnectedIsFirstFrame ==
    \A ws \in DOMAIN sessions :
        (sessions[ws].pc # "rejected" /\ ws_out[ws] # <<>>) =>
            ws_out[ws][1].type = "connected"


\* ------------------------------------------------------------------------
\* The event counter of a BR (checked under SpecRx)
\* ------------------------------------------------------------------------
\* C40: events_received of a BR counts the node_event messages with
\* source_ipv6 and event_type handled for it since its latest register:
\* register sets it to 0, each such node_event adds one, and nothing else
\* (a node_event without those fields, any other message, unregister)
\* changes it.
C40_Step ==
    \A br_id \in DOMAIN border_routers' :
        LET after == border_routers'[br_id].events_received
            before == IF br_id \in DOMAIN border_routers
                      THEN border_routers[br_id].events_received ELSE 0
            registered == /\ Len(sessions') = Len(sessions) + 1
                          /\ sessions'[Len(sessions')].pc = "hello"
                          /\ sessions'[Len(sessions')].br_id = br_id
            counted == /\ last_call'.op = "handle_message"
                       /\ rx_count' = rx_count + 1
                       /\ last_call'.br = br_id
                       /\ last_call'.arg \in NodeEventFrames
        IN  after = IF registered THEN 0
                    ELSE IF counted THEN before + 1
                    ELSE before

C40_EventsReceivedCountsNodeEvents == [][C40_Step]_vars

\* a BR that had an event counted registered again and had one more counted
C40_Witness ==
    /\ last_call.op = "handle_message"
    /\ last_call.arg \in NodeEventFrames
    /\ border_routers[last_call.br].events_received = 1
    /\ Cardinality({k \in DOMAIN emitted : /\ emitted[k].event = "node_event"
                                           /\ emitted[k].br_id = last_call.br}) = 2

====
